---- MODULE Spec2Model ----
(***************************************************************************)
(* Model of the SQL Server Doctor MCP tools (sqlserver_doctor/server.py).  *)
(*                                                                         *)
(* Every tool is one action: it draws the call's arguments and the         *)
(* outcomes of the external collaborators (get_connection, execute_query,  *)
(* pyodbc) from small sets, runs the whole handler and records the         *)
(* response envelope.  Python exceptions are values: a computation that    *)
(* can raise returns a record with an `exc` field, and the try/except      *)
(* structure of each handler decides what becomes of it.                   *)
(*                                                                         *)
(* Optional values (`X | None`) are sequences: <<>> is None, <<x>> is x.   *)
(* Texts that the code inspects character by character (query text) are    *)
(* sequences of one-character strings.                                     *)
(***************************************************************************)
EXTENDS Integers, Sequences, FiniteSets, TLC

VARIABLES
    tool,     \* name of the tool invoked last ("none" before the first call)
    args,     \* the arguments of that invocation
    env,      \* the collaborator outcomes observed by that invocation
    resp,     \* the response envelope it returned
    raised,   \* TRUE iff the invocation ended by raising instead of returning
    sent,     \* the statements it sent to the database engine, in order
    kept      \* what the caller holds of an earlier detect_query_antipatterns
              \* call: its arguments, its response, and the success flags of
              \* the calls that returned since (None while it holds nothing)

vars == <<tool, args, env, resp, raised, sent, kept>>

None == <<>>
Some(x) == <<x>>

(***************************************************************************)
(* Bounds of the model.                                                    *)
(***************************************************************************)
\* largest number of rows a modelled result set holds
MaxRows == 2
\* largest number of table names passed to get_query_statistics_health
MaxTables == 2

(***************************************************************************)
(* Exceptions as values.                                                   *)
(***************************************************************************)
NoExc == "none"

\* Messages of the failures the query-execution capability can raise; the
\* empty message is str(Exception()).
FailureMessages == {"Connection timeout", ""}

(***************************************************************************)
(* Character-level text helpers (str.strip, str.upper, str.startswith).    *)
(***************************************************************************)
LowerLetters == <<"a","b","c","d","e","f","g","h","i","j","k","l","m",
                  "n","o","p","q","r","s","t","u","v","w","x","y","z">>
UpperLetters == <<"A","B","C","D","E","F","G","H","I","J","K","L","M",
                  "N","O","P","Q","R","S","T","U","V","W","X","Y","Z">>
Digits == {"0","1","2","3","4","5","6","7","8","9"}
Whitespace == {" ", "\n", "\t"}

IsLower(c) == \E i \in 1..26 : LowerLetters[i] = c
IsUpper(c) == \E i \in 1..26 : UpperLetters[i] = c

UpperChar(c) ==
    IF IsLower(c) THEN UpperLetters[CHOOSE i \in 1..26 : LowerLetters[i] = c]
    ELSE c

\* str.upper()
Upper(s) == [i \in 1..Len(s) |-> UpperChar(s[i])]

RECURSIVE LStrip(_)
LStrip(s) == IF s # <<>> /\ Head(s) \in Whitespace THEN LStrip(Tail(s)) ELSE s

RECURSIVE RStrip(_)
RStrip(s) ==
    IF s # <<>> /\ s[Len(s)] \in Whitespace
    THEN RStrip(SubSeq(s, 1, Len(s) - 1))
    ELSE s

\* str.strip()
Strip(s) == RStrip(LStrip(s))

\* str.startswith(prefix)
StartsWith(s, prefix) ==
    Len(s) >= Len(prefix) /\ SubSeq(s, 1, Len(prefix)) = prefix

KW_SELECT == <<"S","E","L","E","C","T">>
KW_WITH == <<"W","I","T","H">>

(***************************************************************************)
(* XML documents (xml.etree.ElementTree).                                  *)
(*                                                                         *)
(* A plan text is a record [kind, root]: kind "none" is Python None,       *)
(* "empty" the empty string, "malformed" a text ET.fromstring rejects      *)
(* with ParseError, "tree" a well-formed document with root element        *)
(* `root`.  An element is [tag, ns, attrs, kids]: ns is TRUE iff the       *)
(* element is in the ShowPlan namespace                                    *)
(* http://schemas.microsoft.com/sqlserver/2004/07/showplan; attrs maps     *)
(* attribute names to attribute texts.  An attribute text is [t, n, s]:    *)
(* t = "int" for a text int() accepts (value n), "dec" for a decimal text  *)
(* float() accepts and int() rejects (value n), "str" for any other text   *)
(* (the text is s, a sequence of tokens).                                  *)
(***************************************************************************)
AInt(n) == [t |-> "int", n |-> n, s |-> <<>>]
ADec(n) == [t |-> "dec", n |-> n, s |-> <<>>]
AStr(s) == [t |-> "str", n |-> 0, s |-> s]

Elem(tag, ns, attrs, kids) == [tag |-> tag, ns |-> ns, attrs |-> attrs, kids |-> kids]
NoAttrs == [x \in {} |-> AInt(0)]

PlanNone == [kind |-> "none", root |-> Elem("", FALSE, NoAttrs, <<>>)]
PlanEmpty == [kind |-> "empty", root |-> Elem("", FALSE, NoAttrs, <<>>)]
PlanMalformed == [kind |-> "malformed", root |-> Elem("", FALSE, NoAttrs, <<>>)]
PlanTree(root) == [kind |-> "tree", root |-> root]

\* Python truthiness of `execution_plan_xml` (None and "" are falsy)
Truthy(plan) == plan.kind \notin {"none", "empty"}

\* ET.fromstring(plan_xml): the root element, or ParseError
ET_fromstring(plan) ==
    IF plan.kind = "tree"
    THEN [exc |-> NoExc, root |-> plan.root]
    ELSE [exc |-> "ParseError", root |-> plan.root]

\* the descendants of an element in document order (the element itself is
\* not one of them): the elements an ElementPath starting with ".//" visits
RECURSIVE DescendantsOfAll(_)
DescendantsOfAll(es) ==
    IF es = <<>> THEN <<>>
    ELSE <<Head(es)>> \o DescendantsOfAll(Head(es).kids) \o DescendantsOfAll(Tail(es))

Descendants(e) == DescendantsOfAll(e.kids)

RECURSIVE SelectTag(_, _)
SelectTag(es, tag) ==
    IF es = <<>> THEN <<>>
    ELSE IF Head(es).ns /\ Head(es).tag = tag
         THEN <<Head(es)>> \o SelectTag(Tail(es), tag)
         ELSE SelectTag(Tail(es), tag)

\* element.findall('.//p:<tag>', ns), in document order
FindAll(e, tag) == SelectTag(Descendants(e), tag)

\* element.get(name, default)
HasAttr(e, name) == name \in DOMAIN e.attrs
GetAttr(e, name, default) == IF HasAttr(e, name) THEN e.attrs[name] ELSE default

\* int(text): ValueError unless the text is an integer literal
IntOf(a) ==
    IF a.t = "int" THEN [exc |-> NoExc, v |-> a.n]
    ELSE [exc |-> "ValueError", v |-> 0]

\* float(text): ValueError unless the text is a number
FloatOf(a) ==
    IF a.t \in {"int", "dec"} THEN [exc |-> NoExc, v |-> a.n]
    ELSE [exc |-> "ValueError", v |-> 0]

(***************************************************************************)
(* _parse_runtime_stats_from_plan                                          *)
(***************************************************************************)
RuntimeAttrs == <<"ActualRows", "ActualElapsedms", "ActualCPUms",
                  "ActualLogicalReads", "ActualPhysicalReads", "ActualReadAheads",
                  "ActualLobLogicalReads", "ActualLobPhysicalReads">>

RuntimeStats(e) ==
    [actual_rows |-> IntOf(GetAttr(e, "ActualRows", AInt(0))).v,
     actual_elapsed_ms |-> IntOf(GetAttr(e, "ActualElapsedms", AInt(0))).v,
     actual_cpu_ms |-> IntOf(GetAttr(e, "ActualCPUms", AInt(0))).v,
     actual_logical_reads |-> IntOf(GetAttr(e, "ActualLogicalReads", AInt(0))).v,
     actual_physical_reads |-> IntOf(GetAttr(e, "ActualPhysicalReads", AInt(0))).v,
     actual_read_aheads |-> IntOf(GetAttr(e, "ActualReadAheads", AInt(0))).v,
     actual_lob_logical_reads |-> IntOf(GetAttr(e, "ActualLobLogicalReads", AInt(0))).v,
     actual_lob_physical_reads |-> IntOf(GetAttr(e, "ActualLobPhysicalReads", AInt(0))).v]

\* the exception the dict literal of lines 946-955 raises, if any
RuntimeStatsExc(e) ==
    IF \E i \in 1..Len(RuntimeAttrs) :
           IntOf(GetAttr(e, RuntimeAttrs[i], AInt(0))).exc # NoExc
    THEN "ValueError"
    ELSE NoExc

\* root.find('.//p:RunTimeCountersPerThread', ns): first match or None
FindRuntime(root) ==
    LET found == FindAll(root, "RunTimeCountersPerThread")
    IN IF found = <<>> THEN None ELSE Some(found[1])

\* the try block of lines 937-958: [exc, stats]
parse_runtime_stats_try(plan) ==
    LET parsed == ET_fromstring(plan)
        runtime == FindRuntime(parsed.root)
    IN IF parsed.exc # NoExc
       THEN [exc |-> parsed.exc, stats |-> None]
       ELSE IF runtime # None
            THEN IF RuntimeStatsExc(runtime[1]) # NoExc
                 THEN [exc |-> RuntimeStatsExc(runtime[1]), stats |-> None]
                 ELSE [exc |-> NoExc, stats |-> Some(RuntimeStats(runtime[1]))]
            ELSE [exc |-> NoExc, stats |-> None]

\* a variant without the catch-all handler of lines 963-965
parse_runtime_stats_from_plan_NoCatchAll(plan) ==
    LET r == parse_runtime_stats_try(plan)
    IN IF r.exc = "ParseError" THEN [exc |-> NoExc, stats |-> None] ELSE r

\* _parse_runtime_stats_from_plan: [exc, stats], stats None or Some(dict)
parse_runtime_stats_from_plan(plan) ==
    LET r == parse_runtime_stats_try(plan)
    IN IF r.exc = "ParseError" THEN [exc |-> NoExc, stats |-> None]   \* except ET.ParseError
       ELSE IF r.exc # NoExc THEN [exc |-> NoExc, stats |-> None]    \* except Exception
       ELSE r

(***************************************************************************)
(* Query texts.  A query is [text, stmts]: text is what the tools read,    *)
(* stmts the kinds of the statements the database engine runs when it is   *)
(* handed the text.                                                        *)
(***************************************************************************)
\* SELECT 1
TXT_Select1 ==
    <<"S","E","L","E","C","T"," ","1">>
\*   select a from T
TXT_LowerSelect ==
    <<" "," ","s","e","l","e","c","t"," ","a"," ","f","r","o","m"," ","T">>
\* WITH c AS (SELECT 1 AS a) SELECT a FROM c
TXT_CteSelect ==
    <<"W","I","T","H"," ","c"," ","A","S"," ","(","S","E","L","E","C","T"," ","1"," ","A","S"," ",
    "a",")"," ","S","E","L","E","C","T"," ","a"," ","F","R","O","M"," ","c">>
\* WITH c AS (SELECT 1 AS a) DELETE FROM T
TXT_CteDelete ==
    <<"W","I","T","H"," ","c"," ","A","S"," ","(","S","E","L","E","C","T"," ","1"," ","A","S"," ",
    "a",")"," ","D","E","L","E","T","E"," ","F","R","O","M"," ","T">>
\* SELECT 1; DROP TABLE T
TXT_SelectThenDrop ==
    <<"S","E","L","E","C","T"," ","1",";"," ","D","R","O","P"," ","T","A","B","L","E"," ","T">>
\* DELETE FROM T
TXT_Delete ==
    <<"D","E","L","E","T","E"," ","F","R","O","M"," ","T">>
\* update T set a = 1
TXT_Update ==
    <<"u","p","d","a","t","e"," ","T"," ","s","e","t"," ","a"," ","="," ","1">>

Query(text, stmts) == [text |-> text, stmts |-> stmts]

ExecQueries ==
    { Query(TXT_Select1, <<"SELECT">>),
      Query(TXT_LowerSelect, <<"SELECT">>),
      Query(TXT_CteSelect, <<"SELECT">>),
      Query(TXT_CteDelete, <<"DELETE">>),
      Query(TXT_SelectThenDrop, <<"SELECT", "DROP">>),
      Query(TXT_Delete, <<"DELETE">>),
      Query(TXT_Update, <<"UPDATE">>) }

\* the query is nothing but SELECT statements
IsSelectOnly(q) == \A i \in 1..Len(q.stmts) : q.stmts[i] = "SELECT"

(***************************************************************************)
(* analyze_query_execution                                                 *)
(***************************************************************************)
ExecutionMetrics(duration_ms, cpu_time_ms, logical_reads, physical_reads, read_ahead_reads, lob_logical_reads, lob_physical_reads, row_count, estimated_cost) ==
    [duration_ms |-> duration_ms, cpu_time_ms |-> cpu_time_ms,
     logical_reads |-> logical_reads, physical_reads |-> physical_reads,
     read_ahead_reads |-> read_ahead_reads, lob_logical_reads |-> lob_logical_reads,
     lob_physical_reads |-> lob_physical_reads, row_count |-> row_count,
     estimated_cost |-> estimated_cost]

\* cpu_time_ms / duration_ms * 100 > 70.  The code computes it in binary
\* floating point; for integer milliseconds the result of the comparison is
\* that of the exact one (0.7 * 100 rounds to 70.0).
CpuPercentageAbove70(m) ==
    IF m.duration_ms > 0 THEN m.cpu_time_ms * 100 > 70 * m.duration_ms ELSE FALSE

\* physical_reads > logical_reads * 0.1, exactly (see above)
PhysicalAboveTenth(m) == m.physical_reads * 10 > m.logical_reads

\* a variant of the classification with non-strict comparisons
BottleneckType_NonStrict(m) ==
    IF m.logical_reads > 0
    THEN IF m.duration_ms > 0 /\ m.cpu_time_ms * 100 >= 70 * m.duration_ms
         THEN Some("CPU_BOUND")
         ELSE IF m.physical_reads * 10 >= m.logical_reads
              THEN Some("IO_BOUND")
              ELSE Some("MEMORY_BOUND")
    ELSE IF m.duration_ms >= 1000 THEN Some("UNKNOWN") ELSE None

\* lines 1151-1167: the bottleneck type of an ExecutionMetrics record
BottleneckType(m) ==
    IF m.logical_reads > 0
    THEN IF CpuPercentageAbove70(m)
         THEN Some("CPU_BOUND")
         ELSE IF PhysicalAboveTenth(m)
              THEN Some("IO_BOUND")
              ELSE Some("MEMORY_BOUND")
    ELSE IF m.duration_ms > 1000 THEN Some("UNKNOWN") ELSE None

\* lines 998-999: the query passes the safety check
PassesSelectGate(query) ==
    LET query_upper == Upper(Strip(query.text))
    IN StartsWith(query_upper, KW_SELECT) \/ StartsWith(query_upper, KW_WITH)

\* lines 1016-1032: the batch handed to cursor.execute
CombinedQuery(query, database_name, include_actual_plan) ==
    [use |-> database_name, statistics_xml |-> include_actual_plan, query |-> query]

\* the statement of lines 1093-1100
HashQuery == [use |-> None, statistics_xml |-> FALSE, query |-> Query(<<"#">>, <<"SELECT">>)]

\* lines 1050-1074: the result sets of the batch, folded into
\* [results, execution_plan_xml].  A result set is [showplan, rows]: showplan
\* is TRUE iff it has one column whose name contains 'showplan'.
RECURSIVE ProcessResultSets(_, _, _)
ProcessResultSets(sets, include_actual_plan, acc) ==
    IF sets = <<>> THEN acc
    ELSE LET rs == Head(sets)
             next == IF include_actual_plan /\ rs.showplan
                     THEN IF rs.rows # <<>>
                          THEN [acc EXCEPT !.execution_plan_xml = rs.rows[1]]
                          ELSE acc
                     ELSE IF rs.rows # <<>>
                          THEN [acc EXCEPT !.results = rs.rows]
                          ELSE acc
         IN ProcessResultSets(Tail(sets), include_actual_plan, next)

\* a variant whose fallback takes the fetched row count for page reads
BuildExecutionMetrics_RowsAsReads(runtime_stats, execution_time_ms, results) ==
    IF runtime_stats # None
    THEN LET rt == runtime_stats[1]
         IN ExecutionMetrics(
               IF rt.actual_elapsed_ms > 0 THEN rt.actual_elapsed_ms ELSE execution_time_ms,
               rt.actual_cpu_ms, rt.actual_logical_reads, rt.actual_physical_reads,
               rt.actual_read_aheads, rt.actual_lob_logical_reads,
               rt.actual_lob_physical_reads, rt.actual_rows, 0)
    ELSE ExecutionMetrics(execution_time_ms, 0, Len(results), 0, 0, 0, 0, Len(results), 0)

\* a variant that takes the elapsed-ms counter whatever its value
BuildExecutionMetrics_ElapsedAlways(runtime_stats, execution_time_ms, results) ==
    IF runtime_stats # None
    THEN LET rt == runtime_stats[1]
         IN ExecutionMetrics(
               rt.actual_elapsed_ms,
               rt.actual_cpu_ms, rt.actual_logical_reads, rt.actual_physical_reads,
               rt.actual_read_aheads, rt.actual_lob_logical_reads,
               rt.actual_lob_physical_reads, rt.actual_rows, 0)
    ELSE ExecutionMetrics(execution_time_ms, 0, 0, 0, 0, 0, 0, Len(results), 0)

\* lines 1110-1145: the metrics record
BuildExecutionMetrics(runtime_stats, execution_time_ms, results) ==
    IF runtime_stats # None
    THEN LET rt == runtime_stats[1]
         IN ExecutionMetrics(
               IF rt.actual_elapsed_ms > 0 THEN rt.actual_elapsed_ms ELSE execution_time_ms,
               rt.actual_cpu_ms, rt.actual_logical_reads, rt.actual_physical_reads,
               rt.actual_read_aheads, rt.actual_lob_logical_reads,
               rt.actual_lob_physical_reads, rt.actual_rows, 0)
    ELSE ExecutionMetrics(execution_time_ms, 0, 0, 0, 0, 0, 0, Len(results), 0)

AnalyzeQueryExecutionResponse(execution_metrics, execution_plan_xml, bottleneck_type, query_hash, query_plan_hash, success, error) ==
    [execution_metrics |-> execution_metrics,
     execution_plan_xml |-> execution_plan_xml,
     execution_plan_summary |-> None,
     wait_statistics |-> None,
     bottleneck_type |-> bottleneck_type,
     query_hash |-> query_hash,
     query_plan_hash |-> query_plan_hash,
     success |-> success,
     error |-> error]

AnalyzeQueryExecutionFailure(error) ==
    AnalyzeQueryExecutionResponse(None, None, None, None, None, FALSE, Some(error))

Outcome(r, s) == [resp |-> r, raised |-> FALSE, sent |-> s]

\* a variant without the handler of lines 1106-1108 around the hash lookup
analyze_query_execution_HashLookupFatal(query, database_name, include_actual_plan, max_execution_time_seconds, e) ==
    IF ~PassesSelectGate(query)
    THEN Outcome(AnalyzeQueryExecutionFailure(
                     <<"Only SELECT queries are allowed for analysis">>), <<>>)
    ELSE IF ~e.conn.ok
    THEN \* get_connection() raised: the outer handler, error = str(e)
         Outcome(AnalyzeQueryExecutionFailure(<<e.conn.msg>>), <<>>)
    ELSE IF e.exec.stage = "connect"
    THEN \* get_connection_string() or pyodbc.connect raised
         Outcome(AnalyzeQueryExecutionFailure(<<"Query execution failed: ", e.exec.msg>>), <<>>)
    ELSE IF e.exec.stage = "execute"
    THEN \* cursor.execute, fetchall or nextset raised
         Outcome(AnalyzeQueryExecutionFailure(<<"Query execution failed: ", e.exec.msg>>),
                 <<CombinedQuery(query, database_name, include_actual_plan)>>)
    ELSE
    LET got == ProcessResultSets(e.result_sets, include_actual_plan,
                                 [results |-> <<>>, execution_plan_xml |-> PlanNone])
        execution_plan_xml == got.execution_plan_xml
        hash_results == e.hash
        query_hash == IF hash_results.ok /\ hash_results.rows # <<>>
                      THEN Some(hash_results.rows[1].query_hash) ELSE None
        query_plan_hash == IF hash_results.ok /\ hash_results.rows # <<>>
                           THEN Some(hash_results.rows[1].query_plan_hash) ELSE None
        runtime_stats == IF Truthy(execution_plan_xml)
                         THEN parse_runtime_stats_from_plan(execution_plan_xml)
                         ELSE [exc |-> NoExc, stats |-> None]
        execution_metrics == BuildExecutionMetrics(runtime_stats.stats, e.execution_time_ms,
                                                   got.results)
        all_sent == <<CombinedQuery(query, database_name, include_actual_plan), HashQuery>>
    IN IF ~hash_results.ok
       THEN \* the failure of the hash lookup reaches the outer handler
            Outcome(AnalyzeQueryExecutionFailure(<<"Hash lookup failed">>), all_sent)
       ELSE IF runtime_stats.exc # NoExc
       THEN \* an exception out of the parser: the outer handler
            Outcome(AnalyzeQueryExecutionFailure(<<runtime_stats.exc>>), all_sent)
       ELSE Outcome(AnalyzeQueryExecutionResponse(
                        Some(execution_metrics),
                        IF execution_plan_xml.kind = "none" THEN None
                        ELSE Some(execution_plan_xml),
                        BottleneckType(execution_metrics),
                        query_hash, query_plan_hash, TRUE, None),
                    all_sent)

\* analyze_query_execution (lines 969-1197); e holds the collaborator outcomes
analyze_query_execution(query, database_name, include_actual_plan, max_execution_time_seconds, e) ==
    IF ~PassesSelectGate(query)
    THEN Outcome(AnalyzeQueryExecutionFailure(
                     <<"Only SELECT queries are allowed for analysis">>), <<>>)
    ELSE IF ~e.conn.ok
    THEN \* get_connection() raised: the outer handler, error = str(e)
         Outcome(AnalyzeQueryExecutionFailure(<<e.conn.msg>>), <<>>)
    ELSE IF e.exec.stage = "connect"
    THEN \* get_connection_string() or pyodbc.connect raised
         Outcome(AnalyzeQueryExecutionFailure(<<"Query execution failed: ", e.exec.msg>>), <<>>)
    ELSE IF e.exec.stage = "execute"
    THEN \* cursor.execute, fetchall or nextset raised
         Outcome(AnalyzeQueryExecutionFailure(<<"Query execution failed: ", e.exec.msg>>),
                 <<CombinedQuery(query, database_name, include_actual_plan)>>)
    ELSE
    LET got == ProcessResultSets(e.result_sets, include_actual_plan,
                                 [results |-> <<>>, execution_plan_xml |-> PlanNone])
        execution_plan_xml == got.execution_plan_xml
        hash_results == e.hash
        query_hash == IF hash_results.ok /\ hash_results.rows # <<>>
                      THEN Some(hash_results.rows[1].query_hash) ELSE None
        query_plan_hash == IF hash_results.ok /\ hash_results.rows # <<>>
                           THEN Some(hash_results.rows[1].query_plan_hash) ELSE None
        runtime_stats == IF Truthy(execution_plan_xml)
                         THEN parse_runtime_stats_from_plan(execution_plan_xml)
                         ELSE [exc |-> NoExc, stats |-> None]
        execution_metrics == BuildExecutionMetrics(runtime_stats.stats, e.execution_time_ms,
                                                   got.results)
        all_sent == <<CombinedQuery(query, database_name, include_actual_plan), HashQuery>>
    IN IF runtime_stats.exc # NoExc
       THEN \* an exception out of the parser: the outer handler
            Outcome(AnalyzeQueryExecutionFailure(<<runtime_stats.exc>>), all_sent)
       ELSE Outcome(AnalyzeQueryExecutionResponse(
                        Some(execution_metrics),
                        IF execution_plan_xml.kind = "none" THEN None
                        ELSE Some(execution_plan_xml),
                        BottleneckType(execution_metrics),
                        query_hash, query_plan_hash, TRUE, None),
                    all_sent)

(***************************************************************************)
(* get_query_statistics_health                                             *)
(***************************************************************************)
StatisticsAnalysis(table, row, days_old, modification_percent, needs_update, severity, recommendation) ==
    [table |-> table, statistics_name |-> row.statistics_name,
     last_updated |-> row.last_updated, days_old |-> days_old,
     modification_percent |-> modification_percent, needs_update |-> needs_update,
     severity |-> severity, recommendation |-> recommendation]

\* pydantic accepts the row's values for a StatisticsAnalysis: last_updated
\* is declared `str`, so a NULL STATS_DATE is rejected with ValidationError
StatisticsRowValid(row) == row.last_updated # None

\* lines 1299-1300
DaysOld(row) == IF row.days_old # None THEN row.days_old[1] ELSE 999
ModPercent(row) ==
    IF row.modification_percent # None /\ row.modification_percent[1] # 0
    THEN row.modification_percent[1] ELSE 0

\* a variant of the row analysis that reads the thresholds as inclusive
AnalyzeStatisticsRow_Inclusive(table_name, row) ==
    LET days_old == DaysOld(row)
        mod_percent == ModPercent(row)
    IN IF days_old >= 30 \/ mod_percent >= 20
       THEN IF mod_percent >= 50 \/ days_old >= 90
            THEN StatisticsAnalysis(table_name, row, days_old, mod_percent, TRUE, "HIGH",
                     Some(<<"UPDATE STATISTICS ", table_name, " WITH FULLSCAN;">>))
            ELSE StatisticsAnalysis(table_name, row, days_old, mod_percent, TRUE, "WARNING",
                     Some(<<"UPDATE STATISTICS ", table_name, ";">>))
       ELSE StatisticsAnalysis(table_name, row, days_old, mod_percent, FALSE, "OK", None)

\* lines 1298-1330: the analysis of one statistics row
AnalyzeStatisticsRow(table_name, row) ==
    LET days_old == DaysOld(row)
        mod_percent == ModPercent(row)
    IN IF days_old > 30 \/ mod_percent > 20
       THEN IF mod_percent > 50 \/ days_old > 90
            THEN StatisticsAnalysis(table_name, row, days_old, mod_percent, TRUE, "HIGH",
                     Some(<<"UPDATE STATISTICS ", table_name, " WITH FULLSCAN;">>))
            ELSE StatisticsAnalysis(table_name, row, days_old, mod_percent, TRUE, "WARNING",
                     Some(<<"UPDATE STATISTICS ", table_name, ";">>))
       ELSE StatisticsAnalysis(table_name, row, days_old, mod_percent, FALSE, "OK", None)

\* the loop of lines 1298-1330 over one table's rows: the rows are appended
\* one by one; a row pydantic rejects raises, which ends the table's loop
\* (handler of lines 1332-1333) with the earlier rows kept
RECURSIVE AnalyzeStatisticsRows(_, _, _)
AnalyzeStatisticsRows(table_name, rows, acc) ==
    IF rows = <<>> THEN acc
    ELSE IF ~StatisticsRowValid(Head(rows)) THEN acc
    ELSE AnalyzeStatisticsRows(table_name, Tail(rows),
                               Append(acc, AnalyzeStatisticsRow(table_name, Head(rows))))

\* lines 1264-1333: the loop over the tables; outcomes[i] is what
\* execute_query gives for table_names[i]
RECURSIVE AnalyzeTables(_, _, _)
AnalyzeTables(table_names, outcomes, acc) ==
    IF table_names = <<>> THEN acc
    ELSE LET o == Head(outcomes)
             next == IF ~o.ok THEN acc                       \* except Exception: warning
                     ELSE IF o.rows = <<>> THEN acc          \* no statistics: continue
                     ELSE AnalyzeStatisticsRows(Head(table_names), o.rows, acc)
         IN AnalyzeTables(Tail(table_names), Tail(outcomes), next)

StatsQuery(database_name, table_name) ==
    [use |-> Some(database_name), statistics_xml |-> FALSE,
     query |-> Query(<<"s", "t", "a", "t", "s", ":">>, <<"SELECT">>), table |-> table_name]
DbConfigQuery(database_name) ==
    [use |-> None, statistics_xml |-> FALSE,
     query |-> Query(<<"c", "o", "n", "f", "i", "g", ":">>, <<"SELECT">>),
     table |-> database_name]

GetQueryStatisticsHealthResponse(statistics_analysis, auto_update, auto_create, success, error) ==
    [statistics_analysis |-> statistics_analysis,
     cardinality_mismatches |-> <<>>,
     auto_update_stats_enabled |-> auto_update,
     auto_create_stats_enabled |-> auto_create,
     success |-> success,
     error |-> error]

\* get_query_statistics_health (lines 1201-1359); table_names is None or
\* Some(list)
get_query_statistics_health(database_name, table_names, execution_plan_xml, e) ==
    IF ~e.conn.ok
    THEN Outcome(GetQueryStatisticsHealthResponse(<<>>, FALSE, FALSE, FALSE,
                                                  Some(<<e.conn.msg>>)), <<>>)
    ELSE
    LET given == IF table_names = None THEN <<>> ELSE table_names[1]
        \* lines 1228-1231: an empty list replaces the missing one
        names == IF given = <<>> /\ Truthy(execution_plan_xml) THEN <<>> ELSE given
    IN IF names = <<>>
       THEN Outcome(GetQueryStatisticsHealthResponse(<<>>, FALSE, FALSE, FALSE,
                Some(<<"Either table_names or execution_plan_xml must be provided">>)), <<>>)
       ELSE
       LET config_row == e.db_config.ok /\ e.db_config.rows # <<>>
           auto_update == IF config_row THEN e.db_config.rows[1].auto_update_enabled
                          ELSE FALSE
           auto_create == IF config_row THEN e.db_config.rows[1].auto_create_enabled
                          ELSE FALSE
       IN Outcome(GetQueryStatisticsHealthResponse(
                      AnalyzeTables(names, e.tables, <<>>),
                      auto_update, auto_create, TRUE, None),
                  <<DbConfigQuery(database_name)>>
                  \o [i \in 1..Len(names) |-> StatsQuery(database_name, names[i])])

(***************************************************************************)
(* Regular expressions (re.search, re.finditer).                           *)
(*                                                                         *)
(* A pattern is a tree of nodes; Match gives the positions at which a      *)
(* node can stop when started at a position, in the order in which the     *)
(* backtracking matcher of `re` tries them, so that the first one that     *)
(* lets the rest of the pattern match is the one `re` reports.  A match    *)
(* state is [e, g]: e is the index of the next character to read, g the    *)
(* span <<from, to>> of capture group 1 (<<>> while it has not matched).   *)
(* Texts are ASCII: \w is [A-Za-z0-9_], \s is a blank, a newline or a tab. *)
(***************************************************************************)
WordChars ==
    { LowerLetters[i] : i \in 1..26 } \cup { UpperLetters[i] : i \in 1..26 }
    \cup Digits \cup {"_"}

Lit(cs) == [k |-> "lit", cs |-> cs]                          \* literal text
Cls(S) == [k |-> "cls", neg |-> FALSE, cs |-> S]             \* [...]
NotCls(S) == [k |-> "cls", neg |-> TRUE, cs |-> S]           \* [^...]
WordBoundary == [k |-> "wb"]                                 \* \b
Star(c) == [k |-> "star", lazy |-> FALSE, cls |-> c]         \* c*  (c a class)
LazyStar(c) == [k |-> "star", lazy |-> TRUE, cls |-> c]      \* c*? (c a class)
Cat(rs) == [k |-> "cat", subs |-> rs]                        \* r1 r2 ...
Alt(rs) == [k |-> "alt", subs |-> rs]                        \* r1|r2|...
Opt(r) == [k |-> "opt", sub |-> r]                           \* (?:r)?
Group(r) == [k |-> "grp", sub |-> r]                         \* (r), group 1
Plus(c) == Cat(<<c, Star(c)>>)                               \* c+

InClass(c, ch) == (ch \in c.cs) # c.neg

\* the number of characters of s from position i on that are in class c
RunLength(c, s, i) ==
    CHOOSE n \in 0..(Len(s) + 1 - i) :
        /\ \A j \in i..(i + n - 1) : InClass(c, s[j])
        /\ (i + n <= Len(s) => ~InClass(c, s[i + n]))

IsWordAt(s, i) == i >= 1 /\ i <= Len(s) /\ s[i] \in WordChars

SameChar(a, b, ignorecase) == IF ignorecase THEN UpperChar(a) = UpperChar(b) ELSE a = b

\* acc followed by the states of new that stop where no state of acc stops:
\* of two ways to reach a position the matcher only ever reports the first
Merge(acc, new) ==
    acc \o SelectSeq(new, LAMBDA x : \A j \in 1..Len(acc) : acc[j].e # x.e)

RECURSIVE Match(_, _, _, _)
RECURSIVE MatchEach(_, _, _, _, _)
RECURSIVE MatchAlt(_, _, _, _, _)
RECURSIVE MatchCat(_, _, _, _)

\* the states in which node r can stop when started in state st
Match(r, s, st, ignorecase) ==
    CASE r.k = "lit" ->
           IF /\ st.e + Len(r.cs) - 1 <= Len(s)
              /\ \A j \in 1..Len(r.cs) : SameChar(s[st.e + j - 1], r.cs[j], ignorecase)
           THEN <<[st EXCEPT !.e = st.e + Len(r.cs)]>>
           ELSE <<>>
      [] r.k = "cls" ->
           IF st.e <= Len(s) /\ InClass(r, s[st.e])
           THEN <<[st EXCEPT !.e = st.e + 1]>>
           ELSE <<>>
      [] r.k = "wb" ->
           IF IsWordAt(s, st.e - 1) # IsWordAt(s, st.e) THEN <<st>> ELSE <<>>
      [] r.k = "star" ->
           LET n == RunLength(r.cls, s, st.e)
           IN IF r.lazy
              THEN [j \in 1..(n + 1) |-> [st EXCEPT !.e = st.e + j - 1]]
              ELSE [j \in 1..(n + 1) |-> [st EXCEPT !.e = st.e + n + 1 - j]]
      [] r.k = "opt" -> Merge(Match(r.sub, s, st, ignorecase), <<st>>)
      [] r.k = "grp" ->
           LET inner == Match(r.sub, s, st, ignorecase)
           IN [j \in 1..Len(inner) |-> [inner[j] EXCEPT !.g = <<st.e, inner[j].e>>]]
      [] r.k = "alt" -> MatchAlt(r.subs, s, st, ignorecase, <<>>)
      [] r.k = "cat" -> MatchCat(r.subs, s, <<st>>, ignorecase)

\* node r started in each state of sts in turn
MatchEach(r, s, sts, ignorecase, acc) ==
    IF sts = <<>> THEN acc
    ELSE MatchEach(r, s, Tail(sts), ignorecase, Merge(acc, Match(r, s, Head(sts), ignorecase)))

\* the alternatives rs in turn, all started in state st
MatchAlt(rs, s, st, ignorecase, acc) ==
    IF rs = <<>> THEN acc
    ELSE MatchAlt(Tail(rs), s, st, ignorecase, Merge(acc, Match(Head(rs), s, st, ignorecase)))

\* the nodes rs one after the other
MatchCat(rs, s, sts, ignorecase) ==
    IF rs = <<>> \/ sts = <<>> THEN sts
    ELSE MatchCat(Tail(rs), s, MatchEach(Head(rs), s, sts, ignorecase, <<>>), ignorecase)

NoMatch == [found |-> FALSE, from |-> 0, to |-> 0, g |-> <<>>]

\* the match object of a match from position from that stops in state st
MatchObject(from, st) == [found |-> TRUE, from |-> from, to |-> st.e, g |-> st.g]

\* the match at position from: the first way the pattern can stop
MatchAt(r, s, from, ignorecase) ==
    MatchObject(from, Match(r, s, [e |-> from, g |-> <<>>], ignorecase)[1])

\* the match at the least of the positions starts where the pattern matches
Leftmost(r, s, starts, ignorecase) ==
    IF starts = {} THEN NoMatch
    ELSE MatchAt(r, s, CHOOSE i \in starts : \A j \in starts : i <= j, ignorecase)

\* pattern.search(s, pos): the leftmost match starting at pos or later;
\* the match is s[from .. to-1]
SearchFrom(r, s, pos, ignorecase) ==
    Leftmost(r, s, { i \in pos..(Len(s) + 1) :
                       Match(r, s, [e |-> i, g |-> <<>>], ignorecase) # <<>> }, ignorecase)

\* re.search(pattern, s, flags)
Search(r, s, ignorecase) == SearchFrom(r, s, 1, ignorecase)

\* re.finditer(pattern, s, flags): the non-overlapping matches, left to right
RECURSIVE FindIterFrom(_, _, _, _)
RECURSIVE FindIterNext(_, _, _, _)
FindIterFrom(r, s, pos, ignorecase) == FindIterNext(r, s, SearchFrom(r, s, pos, ignorecase), ignorecase)

\* the match m, if it is one, and the matches after it
FindIterNext(r, s, m, ignorecase) ==
    IF ~m.found THEN <<>>
    ELSE <<m>> \o FindIterFrom(r, s, IF m.to = m.from THEN m.to + 1 ELSE m.to, ignorecase)

FindIter(r, s, ignorecase) == FindIterFrom(r, s, 1, ignorecase)

\* match.group(): the matched text
MatchText(s, m) == SubSeq(s, m.from, m.to - 1)

\* match.group(1)
MatchGroup1(s, m) == SubSeq(s, m.g[1], m.g[2] - 1)

(***************************************************************************)
(* detect_query_antipatterns                                               *)
(*                                                                         *)
(* Scores are counted in tenths: 10 is 1.0, 5 is 0.5, 100 is 10.0.  Every  *)
(* score of the code is a multiple of 0.5, which floats hold exactly.      *)
(***************************************************************************)
KW_FROM == <<"F","R","O","M">>
KW_WHERE == <<"W","H","E","R","E">>
KW_AND == <<"A","N","D">>
KW_ON == <<"O","N">>
KW_BETWEEN == <<"B","E","T","W","E","E","N">>
KW_IN == <<"I","N">>
KW_LIKE == <<"L","I","K","E">>
KW_NOT == <<"N","O","T">>
KW_JOIN == <<"J","O","I","N">>
KW_COUNT == <<"C","O","U","N","T">>

Blank == Cls(Whitespace)          \* \s
Word == Cls(WordChars)            \* \w
Quote == {"'", "\""}

\* r'\bSELECT\s+\*\s+FROM\b'
RE_SelectStarWord ==
    Cat(<<WordBoundary, Lit(KW_SELECT), Plus(Blank), Lit(<<"*">>), Plus(Blank),
          Lit(KW_FROM), WordBoundary>>)

\* r'SELECT\s+\*\s+FROM'
RE_SelectStar ==
    Cat(<<Lit(KW_SELECT), Plus(Blank), Lit(<<"*">>), Plus(Blank), Lit(KW_FROM)>>)

\* r'(?:WHERE|AND|ON)\s+(?:[\w]+\.)?[\w]+\s*\([^)]*?(\w+\.\w+)[^)]*?\)\s*
\*   (?:=|<|>|<=|>=|<>|!=|BETWEEN|IN|LIKE|NOT\s+IN|NOT\s+LIKE)'
generic_function_pattern ==
    Cat(<<Alt(<<Lit(KW_WHERE), Lit(KW_AND), Lit(KW_ON)>>),
          Plus(Blank),
          Opt(Cat(<<Plus(Word), Lit(<<".">>)>>)),
          Plus(Word),
          Star(Blank),
          Lit(<<"(">>),
          LazyStar(NotCls({")"})),
          Group(Cat(<<Plus(Word), Lit(<<".">>), Plus(Word)>>)),
          LazyStar(NotCls({")"})),
          Lit(<<")">>),
          Star(Blank),
          Alt(<<Lit(<<"=">>), Lit(<<"<">>), Lit(<<">">>), Lit(<<"<", "=">>),
                Lit(<<">", "=">>), Lit(<<"<", ">">>), Lit(<<"!", "=">>),
                Lit(KW_BETWEEN), Lit(KW_IN), Lit(KW_LIKE),
                Cat(<<Lit(KW_NOT), Plus(Blank), Lit(KW_IN)>>),
                Cat(<<Lit(KW_NOT), Plus(Blank), Lit(KW_LIKE)>>)>>)>>)

\* r"\bLIKE\s+['\"]%"
RE_LikeWildcard ==
    Cat(<<WordBoundary, Lit(KW_LIKE), Plus(Blank), Cls(Quote), Lit(<<"%">>)>>)

\* r"LIKE\s+['\"]%[^'\"]+['\"]"
RE_LikeWildcardLiteral ==
    Cat(<<Lit(KW_LIKE), Plus(Blank), Cls(Quote), Lit(<<"%">>), Plus(NotCls(Quote)),
          Cls(Quote)>>)

\* r'\(\s*SELECT\s+[^\)]*\b(?:FROM|WHERE)[^\)]*\b(?:WHERE|JOIN)[^\)]*\b
\*   (?:\w+\.\w+\s*=\s*\w+\.\w+|\w+\s*=\s*\w+\.\w+)[^\)]*\)'
subquery_pattern ==
    Cat(<<Lit(<<"(">>), Star(Blank), Lit(KW_SELECT), Plus(Blank),
          Star(NotCls({")"})), WordBoundary, Alt(<<Lit(KW_FROM), Lit(KW_WHERE)>>),
          Star(NotCls({")"})), WordBoundary, Alt(<<Lit(KW_WHERE), Lit(KW_JOIN)>>),
          Star(NotCls({")"})), WordBoundary,
          Alt(<<Cat(<<Plus(Word), Lit(<<".">>), Plus(Word), Star(Blank), Lit(<<"=">>),
                      Star(Blank), Plus(Word), Lit(<<".">>), Plus(Word)>>),
                Cat(<<Plus(Word), Star(Blank), Lit(<<"=">>),
                      Star(Blank), Plus(Word), Lit(<<".">>), Plus(Word)>>)>>),
          Star(NotCls({")"})), Lit(<<")">>)>>)

\* r'\bWHERE\s+[^\(]*\bCOUNT\s*\('
RE_CountInWhere ==
    Cat(<<WordBoundary, Lit(KW_WHERE), Plus(Blank), Star(NotCls({"("})), WordBoundary,
          Lit(KW_COUNT), Star(Blank), Lit(<<"(">>)>>)

\* An AntipatternInfo; location and issue are sequences of text pieces.  The
\* recommendation and estimated_impact fields are fixed texts per category
\* and are left out.
AntipatternInfo(category, severity, location, issue) ==
    [category |-> category, severity |-> severity, location |-> location, issue |-> issue]

\* a variant that counts every finding as half a point
Found_HalfPoint(acc, finding, points) ==
    [antipatterns |-> Append(acc.antipatterns, finding),
     complexity_score |-> acc.complexity_score + 5]

\* the running state of the analysis: the findings and the score so far
Found(acc, finding, points) ==
    [antipatterns |-> Append(acc.antipatterns, finding),
     complexity_score |-> acc.complexity_score + points]

\* text[:n]
Prefix(text, n) == SubSeq(text, 1, IF Len(text) < n THEN Len(text) ELSE n)

\* a variant that rates SELECT * as LOW
SelectStarCheck_Low(acc, query_upper) ==
    IF Search(RE_SelectStarWord, query_upper, FALSE).found
    THEN Found(acc,
               AntipatternInfo("SELECT_STAR", "LOW",
                   MatchText(query_upper, Search(RE_SelectStar, query_upper, TRUE)),
                   <<"Selecting all columns instead of specific ones">>),
               5)
    ELSE acc

\* Pattern 1 (lines 1664-1676): SELECT *
SelectStarCheck(acc, query_upper) ==
    IF Search(RE_SelectStarWord, query_upper, FALSE).found
    THEN Found(acc,
               AntipatternInfo("SELECT_STAR", "MEDIUM",
                   MatchText(query_upper, Search(RE_SelectStar, query_upper, TRUE)),
                   <<"Selecting all columns instead of specific ones">>),
               5)
    ELSE acc

\* Pattern 2 (lines 1678-1702): one finding per match of the function pattern
RECURSIVE NonSargableCheck(_, _, _)
NonSargableCheck(acc, query_upper, matches) ==
    IF matches = <<>> THEN acc
    ELSE NonSargableCheck(
             Found(acc,
                   AntipatternInfo("NON_SARGABLE_PREDICATE", "HIGH",
                       Prefix(Strip(MatchText(query_upper, Head(matches))), 100),
                       <<"Function call on column ">>
                       \o MatchGroup1(query_upper, Head(matches))
                       \o <<" prevents index seek">>),
                   15),
             query_upper, Tail(matches))

\* Pattern 3 (lines 1704-1718): leading wildcard in LIKE
LeadingWildcardFound(acc, query, match) ==
    IF match.found
    THEN Found(acc,
               AntipatternInfo("LEADING_WILDCARD", "HIGH", MatchText(query, match),
                   <<"Leading wildcard in LIKE prevents index seek">>),
               10)
    ELSE acc

LeadingWildcardCheck(acc, query) ==
    IF Search(RE_LikeWildcard, query, FALSE).found
    THEN LeadingWildcardFound(acc, query, Search(RE_LikeWildcardLiteral, query, TRUE))
    ELSE acc

\* a variant that looks for a correlated subquery only when nothing was found before
CorrelatedSubqueryCheck_OnlyIfFirst(acc, query) ==
    IF acc.antipatterns = <<>> /\ Search(subquery_pattern, query, TRUE).found
    THEN Found(acc,
               AntipatternInfo("CORRELATED_SUBQUERY", "HIGH",
                   <<"(SELECT ... FROM ... WHERE outer.col = inner.col)">>,
                   <<"Correlated subquery may execute once per outer row">>),
               20)
    ELSE acc

\* Pattern 4 (lines 1720-1733): correlated subquery
CorrelatedSubqueryCheck(acc, query) ==
    IF Search(subquery_pattern, query, TRUE).found
    THEN Found(acc,
               AntipatternInfo("CORRELATED_SUBQUERY", "HIGH",
                   <<"(SELECT ... FROM ... WHERE outer.col = inner.col)">>,
                   <<"Correlated subquery may execute once per outer row">>),
               20)
    ELSE acc

\* Pattern 5 (lines 1735-1747): COUNT in WHERE
CountInWhereCheck(acc, query_upper) ==
    IF Search(RE_CountInWhere, query_upper, FALSE).found
    THEN Found(acc,
               AntipatternInfo("SCALAR_UDF", "MEDIUM", <<"WHERE ... COUNT(...)">>,
                   <<"Aggregate function in WHERE clause (should be in HAVING)">>),
               10)
    ELSE acc

\* lines 1658-1747: the findings and the score the query text gives
TextChecks(query) ==
    LET query_upper == Upper(query)
        start == [antipatterns |-> <<>>, complexity_score |-> 10]
        p1 == SelectStarCheck(start, query_upper)
        p2 == NonSargableCheck(p1, query_upper,
                               FindIter(generic_function_pattern, query_upper, TRUE))
        p3 == LeadingWildcardCheck(p2, query)
        p4 == CorrelatedSubqueryCheck(p3, query)
    IN CountInWhereCheck(p4, query_upper)

\* "Scan" in relop.get("LogicalOp", ""): the word is one token of the text
IsScan(relop) ==
    LET op == GetAttr(relop, "LogicalOp", AStr(<<>>))
    IN op.t = "str" /\ \E i \in 1..Len(op.s) : op.s[i] = "Scan"

\* lines 1755-1768: one MISSING_STATISTICS finding per ColumnsWithNoStatistics
\* element below each Warnings element
RECURSIVE NoStatisticsOfWarning(_, _)
NoStatisticsOfWarning(acc, conversions) ==
    IF conversions = <<>> THEN acc
    ELSE NoStatisticsOfWarning(
             Found(acc,
                   AntipatternInfo("MISSING_STATISTICS", "HIGH", <<"Execution Plan Warning">>,
                       <<"Columns without statistics found in execution plan">>),
                   15),
             Tail(conversions))

RECURSIVE WarningsCheck(_, _)
WarningsCheck(acc, warnings) ==
    IF warnings = <<>> THEN acc
    ELSE WarningsCheck(
             NoStatisticsOfWarning(acc, FindAll(Head(warnings), "ColumnsWithNoStatistics")),
             Tail(warnings))

\* lines 1770-1775: 0.5 per scan operator estimated above 10000 rows;
\* float() of the attribute text may raise
RECURSIVE ScanCheck(_, _)
ScanCheck(acc, relops) ==
    IF relops = <<>> THEN [exc |-> NoExc, msg |-> <<>>, acc |-> acc]
    ELSE IF IsScan(Head(relops))
    THEN LET estimated_rows == GetAttr(Head(relops), "EstimateRows", AInt(0))
             rows == FloatOf(estimated_rows)
         IN IF rows.exc # NoExc
            THEN [exc |-> rows.exc,
                  msg |-> <<"could not convert string to float: '">> \o estimated_rows.s
                          \o <<"'">>,
                  acc |-> acc]
            ELSE ScanCheck(IF rows.v > 10000
                           THEN [acc EXCEPT !.complexity_score = @ + 5]
                           ELSE acc,
                           Tail(relops))
    ELSE ScanCheck(acc, Tail(relops))

\* the try block of lines 1751-1775: [exc, msg, acc]
PlanChecks(acc, execution_plan_xml) ==
    LET parsed == ET_fromstring(execution_plan_xml)
    IN IF parsed.exc # NoExc
       THEN [exc |-> parsed.exc, msg |-> <<"syntax error">>, acc |-> acc]
       ELSE ScanCheck(WarningsCheck(acc, FindAll(parsed.root, "Warnings")),
                      FindAll(parsed.root, "RelOp"))

\* a variant that takes the severity of the first finding
RewritePriority_OfFirstFinding(antipatterns) ==
    IF antipatterns = <<>> THEN "NONE" ELSE antipatterns[1].severity

\* lines 1780-1788
RewritePriority(antipatterns) ==
    IF \E i \in 1..Len(antipatterns) : antipatterns[i].severity = "HIGH" THEN "HIGH"
    ELSE IF \E i \in 1..Len(antipatterns) : antipatterns[i].severity = "MEDIUM" THEN "MEDIUM"
    ELSE IF antipatterns # <<>> THEN "LOW"
    ELSE "NONE"

\* a variant that returns the score without min(..., 10.0)
ClampScore_Unclamped(complexity_score) == complexity_score

\* min(complexity_score, 10.0)
ClampScore(complexity_score) == IF complexity_score < 100 THEN complexity_score ELSE 100

DetectQueryAntipatternsResponse(antipatterns_found, query_complexity_score, rewrite_priority, success, error) ==
    [antipatterns_found |-> antipatterns_found,
     query_complexity_score |-> query_complexity_score,
     rewrite_priority |-> rewrite_priority,
     suggested_rewrite |-> None,
     success |-> success,
     error |-> error]

\* lines 1749-1778: the plan analysis, when a plan is given, goes on from the
\* findings of the query text (text): [exc, msg, acc]
AntipatternPlanSection(text, execution_plan_xml) ==
    IF Truthy(execution_plan_xml)
    THEN PlanChecks(text, execution_plan_xml)
    ELSE [exc |-> NoExc, msg |-> <<>>, acc |-> text]

\* a variant without the except ET.ParseError clause of line 1777
AntipatternResult_ParseErrorEscapes(plan) ==
    [exc |-> plan.exc,
     msg |-> plan.msg,
     resp |-> DetectQueryAntipatternsResponse(
                  plan.acc.antipatterns,
                  ClampScore(plan.acc.complexity_score),
                  RewritePriority(plan.acc.antipatterns),
                  TRUE, None)]

\* lines 1777-1798: except ET.ParseError lets the analysis go on; the
\* response is built from what has been found
AntipatternResult(plan) ==
    [exc |-> IF plan.exc \in {NoExc, "ParseError"} THEN NoExc ELSE plan.exc,
     msg |-> plan.msg,
     resp |-> DetectQueryAntipatternsResponse(
                  plan.acc.antipatterns,
                  ClampScore(plan.acc.complexity_score),
                  RewritePriority(plan.acc.antipatterns),
                  TRUE, None)]

\* the body of the try block of lines 1657-1798: [exc, msg, resp]
detect_query_antipatterns_try(query, execution_plan_xml) ==
    AntipatternResult(AntipatternPlanSection(TextChecks(query), execution_plan_xml))

\* a variant whose failed envelope keeps what had been found
DetectQueryAntipatternsExcept_KeepsFindings(r) ==
    IF r.exc = NoExc
    THEN r.resp
    ELSE [r.resp EXCEPT !.success = FALSE, !.error = Some(r.msg)]

\* except Exception (lines 1800-1808)
DetectQueryAntipatternsExcept(r) ==
    IF r.exc = NoExc
    THEN r.resp
    ELSE DetectQueryAntipatternsResponse(<<>>, 0, "NONE", FALSE, Some(r.msg))

\* a variant whose findings list outlives the call: the findings of the
\* call the caller has kept come first
detect_query_antipatterns_SharedList(query, execution_plan_xml) ==
    IF kept = None
    THEN DetectQueryAntipatternsExcept(detect_query_antipatterns_try(query, execution_plan_xml))
    ELSE [DetectQueryAntipatternsExcept(detect_query_antipatterns_try(query, execution_plan_xml))
             EXCEPT !.antipatterns_found = kept[1].resp.antipatterns_found \o @]

\* detect_query_antipatterns (lines 1634-1808)
detect_query_antipatterns(query, execution_plan_xml) ==
    DetectQueryAntipatternsExcept(detect_query_antipatterns_try(query, execution_plan_xml))

(***************************************************************************)
(* analyze_missing_indexes                                                 *)
(*                                                                         *)
(* Texts the tool cuts and joins (table names, column lists, attribute     *)
(* texts, statements) are sequences of tokens: a name, a bracket, a        *)
(* separator or a fixed piece of text each.  Impact percentages are whole  *)
(* numbers.                                                                *)
(***************************************************************************)
\* sep.join(texts)
RECURSIVE Join(_, _)
Join(texts, sep) ==
    IF texts = <<>> THEN <<>>
    ELSE IF Len(texts) = 1 THEN texts[1]
    ELSE texts[1] \o <<sep>> \o Join(Tail(texts), sep)

\* text.split(sep): pieces holds the finished pieces, piece the current one
RECURSIVE SplitFrom(_, _, _, _)
SplitFrom(text, sep, pieces, piece) ==
    IF text = <<>> THEN Append(pieces, piece)
    ELSE IF Head(text) = sep THEN SplitFrom(Tail(text), sep, Append(pieces, piece), <<>>)
    ELSE SplitFrom(Tail(text), sep, pieces, Append(piece, Head(text)))

Split(text, sep) == SplitFrom(text, sep, <<>>, <<>>)

\* text.replace(old, ""), old a run of tokens
RECURSIVE Remove(_, _)
Remove(text, old) ==
    IF text = <<>> THEN <<>>
    ELSE IF StartsWith(text, old) THEN Remove(SubSeq(text, Len(old) + 1, Len(text)), old)
    ELSE <<Head(text)>> \o Remove(Tail(text), old)

\* text.replace('[', '').replace(']', '')
NoBrackets(text) == Remove(Remove(text, <<"[">>), <<"]">>)

\* text.strip('[]')
RECURSIVE StripBrackets(_)
StripBrackets(text) ==
    IF text # <<>> /\ Head(text) \in {"[", "]"} THEN StripBrackets(Tail(text))
    ELSE IF text # <<>> /\ text[Len(text)] \in {"[", "]"}
    THEN StripBrackets(SubSeq(text, 1, Len(text) - 1))
    ELSE text

\* a value given for a list[str] field: a list, a str or None
AsList(l) == [t |-> "list", v |-> l]
AsStr(s) == [t |-> "str", v |-> s]
AsNone == [t |-> "none", v |-> <<>>]

\* ', '.join(cols) if cols else None
JoinedOrNone(cols) == IF cols # <<>> THEN AsStr(Join(cols, ", ")) ELSE AsNone

\* estimated_size_mb, a fixed number per source, is left out
MissingIndexInfo(table, equality_columns, inequality_columns, included_columns, impact_score, avg_user_impact, avg_total_user_cost, user_seeks, user_scans, last_user_seek, create_statement, recommendation_priority, considerations) ==
    [table |-> table,
     equality_columns |-> equality_columns,
     inequality_columns |-> inequality_columns,
     included_columns |-> included_columns,
     impact_score |-> impact_score,
     avg_user_impact |-> avg_user_impact,
     avg_total_user_cost |-> avg_total_user_cost,
     user_seeks |-> user_seeks,
     user_scans |-> user_scans,
     last_user_seek |-> last_user_seek,
     create_statement |-> create_statement,
     recommendation_priority |-> recommendation_priority,
     considerations |-> considerations]

\* a variant of the validation in which a list[str] field takes any value
MissingIndexInfoValid_AnyColumns(info) == TRUE

\* pydantic validation of MissingIndexInfo (lines 320-336): the three column
\* fields are declared list[str]; a str or None given for one of them is
\* rejected with ValidationError
MissingIndexInfoValid(info) ==
    /\ info.equality_columns.t = "list"
    /\ info.inequality_columns.t = "list"
    /\ info.included_columns.t = "list"

\* a variant whose thresholds are inclusive
DmvPriority_Inclusive(impact_score, user_seeks) ==
    IF impact_score >= 100000 /\ user_seeks >= 1000 THEN "HIGH"
    ELSE IF impact_score >= 10000 THEN "MEDIUM"
    ELSE "LOW"

\* lines 1420-1426
DmvPriority(impact_score, user_seeks) ==
    IF impact_score > 100000 /\ user_seeks > 1000 THEN "HIGH"
    ELSE IF impact_score > 10000 THEN "MEDIUM"
    ELSE "LOW"

\* a variant that keeps the first column only
ColumnsOf_FirstOnly(text) ==
    IF text = None \/ text[1] = <<>> THEN <<>> ELSE <<Split(text[1], ", ")[1]>>

\* row[name].split(", ") if row[name] else []
ColumnsOf(text) == IF text = None \/ text[1] = <<>> THEN <<>> ELSE Split(text[1], ", ")

\* lines 1413-1459: the recommendation of one DMV row; [exc, info]
DmvMissingIndex(row, database_name) ==
    LET table_name == NoBrackets(Remove(row.table_name, <<"[", database_name, "]", ".">>))
        equality_cols == ColumnsOf(row.equality_columns)
        inequality_cols == ColumnsOf(row.inequality_columns)
        included_cols == ColumnsOf(row.included_columns)
        pieces == Split(table_name, ".")
        index_name == <<"IX_">> \o pieces[Len(pieces)] \o <<"_">>
                      \o Join([i \in 1..(IF Len(equality_cols) < 3 THEN Len(equality_cols) ELSE 3)
                                  |-> NoBrackets(equality_cols[i])], "_")
        key_columns == Join(equality_cols \o inequality_cols, ", ")
        create_statement ==
            <<"CREATE NONCLUSTERED INDEX ">> \o index_name \o <<" ON ">> \o table_name
            \o <<" (">> \o key_columns \o <<")">>
            \o IF included_cols # <<>>
               THEN <<" INCLUDE (">> \o Join(included_cols, ", ") \o <<")">>
               ELSE <<>>
    IN IF row.impact_score = None
       THEN \* float(None)
            [exc |-> "TypeError",
             msg |-> <<"float() argument must be a string or a real number, not 'NoneType'">>,
             info |-> <<>>]
       ELSE
       LET impact_score == row.impact_score[1]
           considerations ==
               (IF impact_score < 1000
                THEN <<<<"Low impact score - verify query frequency before creating">>>>
                ELSE <<>>)
               \o (IF Len(equality_cols) + Len(inequality_cols) > 5
                   THEN <<<<"Wide index key - may have high maintenance overhead">>>>
                   ELSE <<>>)
       IN [exc |-> NoExc, msg |-> <<>>,
           info |-> MissingIndexInfo(table_name, AsList(equality_cols),
                        AsList(inequality_cols), AsList(included_cols), impact_score,
                        row.avg_user_impact, row.avg_total_user_cost, row.user_seeks,
                        row.user_scans, row.last_user_seek, create_statement,
                        DmvPriority(impact_score, row.user_seeks), considerations)]

\* the loop of lines 1412-1459: [exc, msg, missing_indexes]
RECURSIVE DmvMissingIndexes(_, _, _)
DmvMissingIndexes(rows, database_name, missing_indexes) ==
    IF rows = <<>> THEN [exc |-> NoExc, msg |-> <<>>, missing_indexes |-> missing_indexes]
    ELSE LET r == DmvMissingIndex(Head(rows), database_name)
         IN IF r.exc # NoExc
            THEN [exc |-> r.exc, msg |-> r.msg, missing_indexes |-> missing_indexes]
            ELSE DmvMissingIndexes(Tail(rows), database_name,
                                   Append(missing_indexes, r.info))

\* the text of an attribute
TextOf(a) == IF a.t = "str" THEN a.s ELSE <<ToString(a.n)>>

\* lines 1511-1519
PlanPriority(impact) ==
    IF impact >= 90 THEN "CRITICAL"
    ELSE IF impact >= 50 THEN "HIGH"
    ELSE IF impact >= 20 THEN "MEDIUM"
    ELSE "LOW"

\* lines 1493-1503: the columns of the ColumnGroup elements with the given usage
RECURSIVE ColumnsWithUsage(_, _)
ColumnsWithUsage(col_groups, usage) ==
    IF col_groups = <<>> THEN <<>>
    ELSE LET found == FindAll(Head(col_groups), "Column")
             columns == [i \in 1..Len(found) |->
                            StripBrackets(TextOf(GetAttr(found[i], "Name", AStr(<<>>))))]
         IN (IF TextOf(GetAttr(Head(col_groups), "Usage", AStr(<<>>))) = <<usage>>
             THEN columns ELSE <<>>)
            \o ColumnsWithUsage(Tail(col_groups), usage)

\* lines 1479-1542: what one MissingIndex element and the impact of its group
\* are turned into; table is <<>> when the element names no table
PlanMissingIndex(missing_index, impact) ==
    LET schema == StripBrackets(TextOf(GetAttr(missing_index, "Schema", AStr(<<"dbo">>))))
        table == StripBrackets(TextOf(GetAttr(missing_index, "Table", AStr(<<>>))))
        table_name == IF schema # <<>> /\ table # <<>> THEN schema \o <<".">> \o table
                      ELSE <<>>
        col_groups == FindAll(missing_index, "ColumnGroup")
        equality_cols == ColumnsWithUsage(col_groups, "EQUALITY")
        inequality_cols == ColumnsWithUsage(col_groups, "INEQUALITY")
        included_cols == ColumnsWithUsage(col_groups, "INCLUDE")
        index_name ==
            IF equality_cols # <<>>
            THEN <<"IX_">> \o table \o <<"_">>
                 \o Join(SubSeq(equality_cols, 1,
                                IF Len(equality_cols) < 2 THEN Len(equality_cols) ELSE 2), "_")
            ELSE <<"IX_">> \o table \o <<"_Suggested">>
        create_statement ==
            <<"CREATE INDEX ">> \o index_name \o <<" ON ">> \o table_name \o <<" (">>
            \o Join(equality_cols \o inequality_cols, ", ") \o <<")">>
            \o (IF included_cols # <<>>
                THEN <<" INCLUDE (">> \o Join(included_cols, ", ") \o <<")">>
                ELSE <<>>)
            \o <<";">>
    IN MissingIndexInfo(table_name, JoinedOrNone(equality_cols),
           JoinedOrNone(inequality_cols), JoinedOrNone(included_cols), impact * 1000,
           impact, 0, 0, 0, None, create_statement, PlanPriority(impact),
           <<<<"From execution plan analysis (impact: ", ToString(impact), ".0%)">>,
             <<"Query-specific recommendation - validate against overall workload">>>>)

\* the loop of lines 1471-1542 over the MissingIndexGroup elements:
\* [exc, missing_indexes], the list as it stands when the loop ends or raises
RECURSIVE PlanMissingIndexes(_, _)
PlanMissingIndexes(groups, missing_indexes) ==
    IF groups = <<>> THEN [exc |-> NoExc, missing_indexes |-> missing_indexes]
    ELSE
    LET impact == FloatOf(GetAttr(Head(groups), "Impact", AInt(0)))
        found == FindAll(Head(groups), "MissingIndex")
    IN IF impact.exc # NoExc
       THEN [exc |-> impact.exc, missing_indexes |-> missing_indexes]
       ELSE IF found = <<>>
       THEN PlanMissingIndexes(Tail(groups), missing_indexes)
       ELSE LET info == PlanMissingIndex(found[1], impact.v)
            IN IF info.table = <<>>
               THEN PlanMissingIndexes(Tail(groups), missing_indexes)
               ELSE IF ~MissingIndexInfoValid(info)
               THEN [exc |-> "ValidationError", missing_indexes |-> missing_indexes]
               ELSE PlanMissingIndexes(Tail(groups), Append(missing_indexes, info))

\* lines 1461-1549: the list after the plan section; ParseError and every
\* other exception raised in it are caught and logged
PlanSection(missing_indexes, execution_plan_xml) ==
    IF ~Truthy(execution_plan_xml) THEN missing_indexes
    ELSE LET parsed == ET_fromstring(execution_plan_xml)
         IN IF parsed.exc # NoExc THEN missing_indexes
            ELSE PlanMissingIndexes(FindAll(parsed.root, "MissingIndexGroup"),
                                    missing_indexes).missing_indexes

ExistingIndexUsage(row, recommendation, action) ==
    [table |-> row.table_name, index_name |-> row.index_name,
     user_seeks |-> row.user_seeks, user_scans |-> row.user_scans,
     user_lookups |-> row.user_lookups, user_updates |-> row.user_updates,
     last_user_seek |-> row.last_user_seek, size_mb |-> row.size_mb,
     recommendation |-> recommendation, action |-> action]

\* a variant whose thresholds are inclusive
ExistingIndex_Inclusive(row) ==
    LET total_reads == row.user_seeks + row.user_scans + row.user_lookups
        updates == row.user_updates
    IN IF total_reads = 0 /\ updates >= 100
       THEN ExistingIndexUsage(row,
                Some(<<"Unused index with high update overhead - consider dropping">>),
                Some(<<"DROP INDEX ", row.index_name, " ON ", row.table_name>>))
       ELSE IF total_reads <= 10 /\ updates >= 1000
       THEN ExistingIndexUsage(row,
                Some(<<"Very low read benefit vs update cost - review for removal">>), None)
       ELSE ExistingIndexUsage(row, None, None)

\* lines 1581-1605
ExistingIndex(row) ==
    LET total_reads == row.user_seeks + row.user_scans + row.user_lookups
        updates == row.user_updates
    IN IF total_reads = 0 /\ updates > 100
       THEN ExistingIndexUsage(row,
                Some(<<"Unused index with high update overhead - consider dropping">>),
                Some(<<"DROP INDEX ", row.index_name, " ON ", row.table_name>>))
       ELSE IF total_reads < 10 /\ updates > 1000
       THEN ExistingIndexUsage(row,
                Some(<<"Very low read benefit vs update cost - review for removal">>), None)
       ELSE ExistingIndexUsage(row, None, None)

AnalyzeMissingIndexesResponse(missing_indexes, existing_index_usage, success, error) ==
    [missing_indexes |-> missing_indexes,
     existing_index_usage |-> existing_index_usage,
     index_overlaps |-> <<>>,
     success |-> success,
     error |-> error]

\* a variant of the failed envelope that reports success
AnalyzeMissingIndexesFailure_AsSuccess(msg) == AnalyzeMissingIndexesResponse(<<>>, <<>>, TRUE, Some(msg))

\* the envelope of the handler of lines 1622-1630
AnalyzeMissingIndexesFailure(msg) == AnalyzeMissingIndexesResponse(<<>>, <<>>, FALSE, Some(msg))

MissingIndexesQuery(database_name) == <<"USE ", database_name, "; SELECT TOP 20 ... FROM sys.dm_db_missing_index_details ...">>
ExistingIndexQuery(database_name) == <<"USE ", database_name, "; SELECT TOP 50 ... FROM sys.indexes ...">>

\* analyze_missing_indexes (lines 1363-1630); e holds the outcomes of
\* get_connection and of the two execute_query calls
analyze_missing_indexes(database_name, execution_plan_xml, e) ==
    IF ~e.conn.ok
    THEN Outcome(AnalyzeMissingIndexesFailure(<<e.conn.msg>>), <<>>)
    ELSE IF ~e.missing.ok
    THEN Outcome(AnalyzeMissingIndexesFailure(<<e.missing.msg>>),
                 <<MissingIndexesQuery(database_name)>>)
    ELSE
    LET dmv == DmvMissingIndexes(e.missing.rows, database_name, <<>>)
        missing_indexes == PlanSection(dmv.missing_indexes, execution_plan_xml)
        queries == <<MissingIndexesQuery(database_name), ExistingIndexQuery(database_name)>>
    IN IF dmv.exc # NoExc
       THEN Outcome(AnalyzeMissingIndexesFailure(dmv.msg),
                    <<MissingIndexesQuery(database_name)>>)
       ELSE IF ~e.existing.ok
       THEN Outcome(AnalyzeMissingIndexesFailure(<<e.existing.msg>>), queries)
       ELSE Outcome(AnalyzeMissingIndexesResponse(
                        missing_indexes,
                        [i \in 1..Len(e.existing.rows) |-> ExistingIndex(e.existing.rows[i])],
                        TRUE, None),
                    queries)

(***************************************************************************)
(* The server-level tools.  Each runs one query; e holds the outcome of    *)
(* get_connection (e.conn) and of execute_query (e.query).  The body of a  *)
(* tool's try block gives [exc, msg, resp]: the response it returns, or    *)
(* the exception it raises with its message.                               *)
(***************************************************************************)
Returns(response) == [exc |-> NoExc, msg |-> "", resp |-> response]
Raises(exc, msg) == [exc |-> exc, msg |-> msg, resp |-> <<>>]

\* conn = get_connection(); results = conn.execute_query(...): [exc, msg, rows]
ExecuteQuery(e) ==
    IF ~e.conn.ok THEN [exc |-> "Exception", msg |-> e.conn.msg, rows |-> <<>>]
    ELSE IF ~e.query.ok THEN [exc |-> "Exception", msg |-> e.query.msg, rows |-> <<>>]
    ELSE [exc |-> NoExc, msg |-> "", rows |-> e.query.rows]

\* the statements a tool with one query has sent
SentBy(e, query) == IF e.conn.ok THEN <<query>> ELSE <<>>

\* pydantic validation of a row: the fields named in required are not NULL
HasAll(row, required) == \A f \in required : row[f] # None

ServerVersionResponse(version, server_name, success, error) ==
    [version |-> version, server_name |-> server_name, success |-> success, error |-> error]

\* lines 395-419
get_server_version_try(e) ==
    LET q == ExecuteQuery(e)
    IN IF q.exc # NoExc THEN Raises(q.exc, q.msg)
       ELSE IF q.rows # <<>>
       THEN IF HasAll(q.rows[1], {"Version", "ServerName"})
            THEN Returns(ServerVersionResponse(q.rows[1].Version[1],
                                               q.rows[1].ServerName[1], TRUE, None))
            ELSE Raises("ValidationError", "1 validation error for ServerVersionResponse")
       ELSE Returns(ServerVersionResponse("", "", FALSE,
                                          Some(<<"No results returned from query">>)))

\* get_server_version (lines 387-428)
get_server_version(e) ==
    LET r == get_server_version_try(e)
    IN Outcome(IF r.exc = NoExc THEN r.resp
               ELSE ServerVersionResponse("", "", FALSE, Some(<<r.msg>>)),
               SentBy(e, "SELECT @@VERSION AS Version, @@SERVERNAME AS ServerName"))

DatabaseListResponse(databases, count, success, error) ==
    [databases |-> databases, count |-> count, success |-> success, error |-> error]

DatabaseInfoFields ==
    {"name", "database_id", "create_date", "state_desc", "recovery_model_desc",
     "compatibility_level"}

\* a variant that leaves out the rows it cannot turn into a record
list_databases_try_SkipsBadRows(e) ==
    LET q == ExecuteQuery(e)
    IN IF q.exc # NoExc THEN Raises(q.exc, q.msg)
       ELSE Returns(DatabaseListResponse(
                        SelectSeq(q.rows, LAMBDA row : HasAll(row, DatabaseInfoFields)),
                        Len(q.rows), TRUE, None))

\* lines 441-464
list_databases_try(e) ==
    LET q == ExecuteQuery(e)
    IN IF q.exc # NoExc THEN Raises(q.exc, q.msg)
       ELSE IF \E i \in 1..Len(q.rows) : ~HasAll(q.rows[i], DatabaseInfoFields)
       THEN Raises("ValidationError", "1 validation error for DatabaseInfo")
       ELSE Returns(DatabaseListResponse(q.rows, Len(q.rows), TRUE, None))

\* list_databases (lines 432-473)
list_databases(e) ==
    LET r == list_databases_try(e)
    IN Outcome(IF r.exc = NoExc THEN r.resp
               ELSE DatabaseListResponse(<<>>, 0, FALSE, Some(<<r.msg>>)),
               SentBy(e, "SELECT name, ... FROM sys.databases ORDER BY name"))

ActiveSessionsResponse(sessions, count, success, error) ==
    [sessions |-> sessions, count |-> count, success |-> success, error |-> error]

\* the fields of ActiveSessionInfo that are not Optional (lines 54-66)
ActiveSessionInfoRequired ==
    {"sql_text", "session_id", "status", "command", "cpu_seconds", "elapsed_seconds",
     "reads", "logical_reads", "wait_time", "dop"}

\* lines 489-527
get_active_sessions_try(e) ==
    LET q == ExecuteQuery(e)
    IN IF q.exc # NoExc THEN Raises(q.exc, q.msg)
       ELSE IF \E i \in 1..Len(q.rows) : ~HasAll(q.rows[i], ActiveSessionInfoRequired)
       THEN Raises("ValidationError", "1 validation error for ActiveSessionInfo")
       ELSE Returns(ActiveSessionsResponse(q.rows, Len(q.rows), TRUE, None))

\* get_active_sessions (lines 477-536)
get_active_sessions(e) ==
    LET r == get_active_sessions_try(e)
    IN Outcome(IF r.exc = NoExc THEN r.resp
               ELSE ActiveSessionsResponse(<<>>, 0, FALSE, Some(<<r.msg>>)),
               SentBy(e, "SELECT sqltext.TEXT as sql_text, ... FROM sys.dm_exec_requests req ..."))

\* Averages are counted in hundredths (50 is 0.50); the modelled averages
\* are multiples of 0.25, which floats hold exactly together with their
\* products by a scheduler count.
SchedulerStatsResponse(scheduler_count, total_runnable_tasks, avg_runnable_per_scheduler, cpu_pressure_detected, interpretation, success, error) ==
    [schedulers |-> <<>>,
     scheduler_count |-> scheduler_count,
     total_runnable_tasks |-> total_runnable_tasks,
     avg_runnable_per_scheduler |-> avg_runnable_per_scheduler,
     cpu_pressure_detected |-> cpu_pressure_detected,
     interpretation |-> interpretation,
     success |-> success,
     error |-> error]

\* lines 583-593
CpuInterpretation(avg_runnable) ==
    IF avg_runnable = 0 THEN "No CPU pressure detected"
    ELSE IF avg_runnable <= 50 THEN "Minimal CPU pressure"
    ELSE IF avg_runnable <= 200 THEN "MILD CPU PRESSURE"
    ELSE IF avg_runnable <= 500 THEN "MODERATE CPU PRESSURE"
    ELSE "CRITICAL CPU PRESSURE"

\* lines 595-603
IoInterpretation(avg_pending_io) ==
    IF avg_pending_io <= 100 THEN "Normal I/O activity"
    ELSE IF avg_pending_io <= 500 THEN "MODERATE I/O PRESSURE"
    ELSE IF avg_pending_io <= 1000 THEN "HIGH I/O PRESSURE"
    ELSE "CRITICAL I/O BOTTLENECK"

\* lines 554-620
get_scheduler_stats_try(e) ==
    LET q == ExecuteQuery(e)
    IN IF q.exc # NoExc THEN Raises(q.exc, q.msg)
       ELSE IF q.rows = <<>> THEN Raises("Exception", "No scheduler statistics returned")
       ELSE
       LET result == q.rows[1]
       IN IF result.avg_runnable_tasks = None \/ result.avg_pending_disk_io_count = None
          THEN Raises("TypeError",
                      "float() argument must be a string or a real number, not 'NoneType'")
          ELSE
          LET avg_runnable == result.avg_runnable_tasks[1]
              avg_pending_io == result.avg_pending_disk_io_count[1]
          IN Returns(SchedulerStatsResponse(
                         result.scheduler_count,
                         (avg_runnable * result.scheduler_count) \div 100,
                         avg_runnable,
                         avg_runnable > 0,
                         <<CpuInterpretation(avg_runnable), " | ",
                           IoInterpretation(avg_pending_io)>>,
                         TRUE, None))

SchedulerQuery == "SELECT COUNT(*) AS scheduler_count, ... FROM sys.dm_os_schedulers ..."

\* a variant without the handler of lines 622-633: the exception leaves the tool
get_scheduler_stats_NoHandler(e) ==
    LET r == get_scheduler_stats_try(e)
    IN IF r.exc = NoExc THEN Outcome(r.resp, SentBy(e, SchedulerQuery))
       ELSE [resp |-> <<>>, raised |-> TRUE, sent |-> SentBy(e, SchedulerQuery)]

\* get_scheduler_stats (lines 540-633)
get_scheduler_stats(e) ==
    LET r == get_scheduler_stats_try(e)
    IN Outcome(IF r.exc = NoExc THEN r.resp
               ELSE SchedulerStatsResponse(0, 0, 0, FALSE, <<>>, FALSE, Some(<<r.msg>>)),
               SentBy(e, SchedulerQuery))

ServerConfigResponse(configurations, success, error) ==
    [configurations |-> configurations, success |-> success, error |-> error]

\* class ConfigSeverity (lines 113-120)
ConfigSeverity == {"OK", "WARNING", "CRITICAL", "REVIEW", "CONSIDER"}

\* the exception one row raises in the list comprehension of lines 785-794:
\* ConfigSeverity(row["severity"]), then the validation of ConfigItem
ConfigItemExc(row) ==
    IF row.severity \notin ConfigSeverity
    THEN Raises("ValueError", "'UNKNOWN' is not a valid ConfigSeverity")
    ELSE IF ~HasAll(row, {"message"})
    THEN Raises("ValidationError", "1 validation error for ConfigItem")
    ELSE Returns(<<>>)

\* lines 650-801
get_server_configurations_try(e) ==
    LET q == ExecuteQuery(e)
        bad == { i \in 1..Len(q.rows) : ConfigItemExc(q.rows[i]).exc # NoExc }
    IN IF q.exc # NoExc THEN Raises(q.exc, q.msg)
       ELSE IF bad # {}
       THEN ConfigItemExc(q.rows[CHOOSE i \in bad : \A j \in bad : i <= j])
       ELSE Returns(ServerConfigResponse(q.rows, TRUE, None))

\* get_server_configurations (lines 637-809)
get_server_configurations(e) ==
    LET r == get_server_configurations_try(e)
    IN Outcome(IF r.exc = NoExc THEN r.resp
               ELSE ServerConfigResponse(<<>>, FALSE, Some(<<r.msg>>)),
               SentBy(e, "SELECT ... FROM sys.configurations ... ORDER BY name"))

MemoryStatsResponse(memory_stats, success, error) ==
    [memory_stats |-> memory_stats, success |-> success, error |-> error]

\* the fields of MemoryStats the counters of which may be missing
MemoryStatsCounters ==
    {"ple_seconds", "memory_grants_pending", "target_memory_mb", "total_memory_mb"}

\* a variant that takes an empty row set for an empty result
get_memory_stats_try_EmptyIsSuccess(e) ==
    LET q == ExecuteQuery(e)
    IN IF q.exc # NoExc THEN Raises(q.exc, q.msg)
       ELSE IF q.rows # <<>>
       THEN IF HasAll(q.rows[1], MemoryStatsCounters)
            THEN Returns(MemoryStatsResponse(Some(q.rows[1]), TRUE, None))
            ELSE Raises("ValidationError", "1 validation error for MemoryStats")
       ELSE Returns(MemoryStatsResponse(None, TRUE, None))

\* lines 831-914
get_memory_stats_try(e) ==
    LET q == ExecuteQuery(e)
    IN IF q.exc # NoExc THEN Raises(q.exc, q.msg)
       ELSE IF q.rows # <<>>
       THEN IF HasAll(q.rows[1], MemoryStatsCounters)
            THEN Returns(MemoryStatsResponse(Some(q.rows[1]), TRUE, None))
            ELSE Raises("ValidationError", "1 validation error for MemoryStats")
       ELSE Returns(MemoryStatsResponse(None, FALSE,
                                        Some(<<"No results returned from query">>)))

\* get_memory_stats (lines 813-921)
get_memory_stats(e) ==
    LET r == get_memory_stats_try(e)
    IN Outcome(IF r.exc = NoExc THEN r.resp
               ELSE MemoryStatsResponse(None, FALSE, Some(<<r.msg>>)),
               SentBy(e, "WITH memory_metrics AS (...) SELECT ... FROM memory_metrics"))

FindObjectDatabaseResponse(database_name, schema_name, object_name, object_type, full_name, success, error) ==
    [database_name |-> database_name,
     schema_name |-> schema_name,
     object_name |-> object_name,
     object_type |-> object_type,
     full_name |-> full_name,
     success |-> success,
     error |-> error]

\* lines 1834-1854: [p.strip().strip('[]') for p in object_name.split('.')]
\* (the modelled names hold no blanks) and what the parts stand for
ObjectNameParts(object_name) ==
    LET pieces == Split(object_name, ".")
    IN [i \in 1..Len(pieces) |-> StripBrackets(pieces[i])]

FindTarget(object_name) ==
    LET parts == ObjectNameParts(object_name)
    IN IF Len(parts) = 3
       THEN [schema |-> parts[2], object |-> parts[3], databases |-> Some(<<parts[1]>>)]
       ELSE IF Len(parts) = 2
       THEN [schema |-> parts[1], object |-> parts[2], databases |-> None]
       ELSE [schema |-> <<"dbo">>, object |-> parts[1], databases |-> None]

\* lines 1922-1924
SearchedDbs(databases_to_search) ==
    Join(SubSeq(databases_to_search, 1,
                IF Len(databases_to_search) < 5 THEN Len(databases_to_search) ELSE 5), ", ")
    \o IF Len(databases_to_search) > 5
       THEN <<" and ", ToString(Len(databases_to_search) - 5), " more">>
       ELSE <<>>

DatabasesQuery == <<"SELECT name FROM sys.databases WHERE state = 0 AND name NOT IN (...)">>

\* lines 1881-1897: one SELECT per database, joined by UNION ALL
UnionQuery(databases_to_search, target) ==
    Join([i \in 1..Len(databases_to_search) |->
             <<"SELECT ... FROM [">> \o databases_to_search[i] \o <<"].sys.objects o ... WHERE o.name = '">>
             \o target.object \o <<"' AND s.name = '">> \o target.schema \o <<"'">>],
         " UNION ALL ")

\* lines 1831-1934: [exc, msg, resp, sent]
find_object_database_try(object_name, e) ==
    IF ~e.conn.ok
    THEN [exc |-> "Exception", msg |-> e.conn.msg, resp |-> <<>>, sent |-> <<>>]
    ELSE
    LET target == FindTarget(object_name)
        listed == target.databases = None
        databases_to_search ==
            IF listed THEN [i \in 1..Len(e.db_list.rows) |-> e.db_list.rows[i].name]
            ELSE target.databases[1]
        sent_list == IF listed THEN <<DatabasesQuery>> ELSE <<>>
        union_query == UnionQuery(databases_to_search, target)
        NotFound(error) ==
            FindObjectDatabaseResponse(None, None, target.object, None, None, FALSE, Some(error))
    IN IF listed /\ ~e.db_list.ok
       THEN [exc |-> "Exception", msg |-> e.db_list.msg, resp |-> <<>>, sent |-> sent_list]
       ELSE IF databases_to_search = <<>>
       THEN [exc |-> NoExc, msg |-> "",
             resp |-> NotFound(<<"No accessible databases found">>), sent |-> sent_list]
       ELSE IF ~e.search.ok
       THEN [exc |-> "Exception", msg |-> e.search.msg, resp |-> <<>>,
             sent |-> Append(sent_list, union_query)]
       ELSE IF e.search.rows # <<>>
       THEN LET result == e.search.rows[1]
            IN [exc |-> NoExc, msg |-> "",
                resp |-> FindObjectDatabaseResponse(
                             Some(result.database_name), Some(result.schema_name),
                             result.object_name, Some(result.object_type),
                             Some(result.database_name \o <<".">> \o result.schema_name
                                  \o <<".">> \o result.object_name),
                             TRUE, None),
                sent |-> Append(sent_list, union_query)]
       ELSE [exc |-> NoExc, msg |-> "",
             resp |-> NotFound(<<"Object '">> \o object_name
                               \o <<"' not found in any accessible database (searched: ">>
                               \o SearchedDbs(databases_to_search) \o <<")">>),
             sent |-> Append(sent_list, union_query)]

\* find_object_database (lines 1812-1946)
find_object_database(object_name, e) ==
    LET r == find_object_database_try(object_name, e)
    IN Outcome(IF r.exc = NoExc THEN r.resp
               ELSE FindObjectDatabaseResponse(None, None, object_name, None, None, FALSE,
                                               Some(<<r.msg>>)),
               r.sent)

(***************************************************************************)
(* Query texts handed to detect_query_antipatterns.                        *)
(***************************************************************************)
\* 
TXT_Empty ==
    <<>>
\* SELECT * FROM T
TXT_SelectStar ==
    <<"S","E","L","E","C","T"," ","*"," ","F","R","O","M"," ","T">>
\* select  *\nfrom t
TXT_LowerSelectStar ==
    <<"s","e","l","e","c","t"," "," ","*","\n","f","r","o","m"," ","t">>
\* SELECT * FROMAGE
TXT_StarNoBoundary ==
    <<"S","E","L","E","C","T"," ","*"," ","F","R","O","M","A","G","E">>
\* SELECT a FROM T WHERE YEAR(T.d) = 2020
TXT_FuncPredicate ==
    <<"S","E","L","E","C","T"," ","a"," ","F","R","O","M"," ","T"," ","W","H","E","R","E"," ","Y",
    "E","A","R","(","T",".","d",")"," ","="," ","2","0","2","0">>
\* SELECT a FROM T WHERE F(T.d) <= 1 AND dbo.G(1, T.e) not  in (2)
TXT_TwoFuncPredicates ==
    <<"S","E","L","E","C","T"," ","a"," ","F","R","O","M"," ","T"," ","W","H","E","R","E"," ","F",
    "(","T",".","d",")"," ","<","="," ","1"," ","A","N","D"," ","d","b","o",".","G","(","1",","," ",
    "T",".","e",")"," ","n","o","t"," "," ","i","n"," ","(","2",")">>
\* SELECT a FROM T WHERE YEAR(d) = 2020
TXT_FuncNoQualifier ==
    <<"S","E","L","E","C","T"," ","a"," ","F","R","O","M"," ","T"," ","W","H","E","R","E"," ","Y",
    "E","A","R","(","d",")"," ","="," ","2","0","2","0">>
\* SELECT a FROM T WHERE n LIKE '%abc'
TXT_LikeWildcard ==
    <<"S","E","L","E","C","T"," ","a"," ","F","R","O","M"," ","T"," ","W","H","E","R","E"," ","n",
    " ","L","I","K","E"," ","'","%","a","b","c","'">>
\* select a from T where n like '%abc'
TXT_LowerLikeWildcard ==
    <<"s","e","l","e","c","t"," ","a"," ","f","r","o","m"," ","T"," ","w","h","e","r","e"," ","n",
    " ","l","i","k","e"," ","'","%","a","b","c","'">>
\* SELECT a FROM T WHERE n LIKE '%'
TXT_LikeOnlyWildcard ==
    <<"S","E","L","E","C","T"," ","a"," ","F","R","O","M"," ","T"," ","W","H","E","R","E"," ","n",
    " ","L","I","K","E"," ","'","%","'">>
\* SELECT a FROM T WHERE EXISTS (SELECT 1 FROM U WHERE U.i = T.i)
TXT_Correlated ==
    <<"S","E","L","E","C","T"," ","a"," ","F","R","O","M"," ","T"," ","W","H","E","R","E"," ","E",
    "X","I","S","T","S"," ","(","S","E","L","E","C","T"," ","1"," ","F","R","O","M"," ","U"," ","W",
    "H","E","R","E"," ","U",".","i"," ","="," ","T",".","i",")">>
\* SELECT a FROM T WHERE COUNT(*) > 1
TXT_CountInWhere ==
    <<"S","E","L","E","C","T"," ","a"," ","F","R","O","M"," ","T"," ","W","H","E","R","E"," ","C",
    "O","U","N","T","(","*",")"," ",">"," ","1">>
\* SELECT * FROM T WHERE F(T.a)=1 AND F(T.b)=1 AND F(T.c)=1 AND F(T.d)=1 AND F(T.e)=1 AND n LIKE '%x' AND EXISTS (SELECT 1 FROM U WHERE U.i = T.i)
TXT_Everything ==
    <<"S","E","L","E","C","T"," ","*"," ","F","R","O","M"," ","T"," ","W","H","E","R","E"," ","F",
    "(","T",".","a",")","=","1"," ","A","N","D"," ","F","(","T",".","b",")","=","1"," ","A","N","D",
    " ","F","(","T",".","c",")","=","1"," ","A","N","D"," ","F","(","T",".","d",")","=","1"," ","A",
    "N","D"," ","F","(","T",".","e",")","=","1"," ","A","N","D"," ","n"," ","L","I","K","E"," ","'",
    "%","x","'"," ","A","N","D"," ","E","X","I","S","T","S"," ","(","S","E","L","E","C","T"," ","1",
    " ","F","R","O","M"," ","U"," ","W","H","E","R","E"," ","U",".","i"," ","="," ","T",".","i",
    ")">>

AntipatternQueries ==
    { TXT_Empty,
      TXT_Select1,
      TXT_SelectStar,
      TXT_LowerSelectStar,
      TXT_StarNoBoundary,
      TXT_FuncPredicate,
      TXT_TwoFuncPredicates,
      TXT_FuncNoQualifier,
      TXT_LikeWildcard,
      TXT_LowerLikeWildcard,
      TXT_LikeOnlyWildcard,
      TXT_Correlated,
      TXT_CountInWhere,
      TXT_Everything }

(***************************************************************************)
(* Plan documents handed to the tools.                                     *)
(***************************************************************************)
ShowPlanXML(kids) == Elem("ShowPlanXML", TRUE, NoAttrs, kids)
RelOp(attrs, kids) == Elem("RelOp", TRUE, attrs, kids)
RunTimeInformation(kids) == Elem("RunTimeInformation", TRUE, NoAttrs, kids)
RunTimeCountersPerThread(attrs) == Elem("RunTimeCountersPerThread", TRUE, attrs, <<>>)

\* the same element outside the ShowPlan namespace, with all its descendants
RECURSIVE StripNamespace(_)
StripNamespaceAll(es) == [i \in 1..Len(es) |-> StripNamespace(es[i])]
StripNamespace(e) == [e EXCEPT !.ns = FALSE, !.kids = StripNamespaceAll(e.kids)]

\* <ShowPlanXML><RelOp><RunTimeInformation><RunTimeCountersPerThread .../>
PlanWithRuntime(attrs) ==
    PlanTree(ShowPlanXML(<<RelOp(NoAttrs,
        <<RunTimeInformation(<<RunTimeCountersPerThread(attrs)>>)>>)>>))

\* counter values around the thresholds of the bottleneck classification
ElapsedValues == {0, 100, 1001}
CpuValues == {0, 70, 71}
ReadValues == {<<0, 0>>, <<0, 5>>, <<10, 1>>, <<10, 2>>, <<11, 1>>}   \* <<logical, physical>>
WallClockValues == {100, 1000, 1001}

CounterAttrs ==
    { [ActualRows |-> AInt(1), ActualElapsedms |-> AInt(d), ActualCPUms |-> AInt(c),
       ActualLogicalReads |-> AInt(r[1]), ActualPhysicalReads |-> AInt(r[2])] :
      d \in ElapsedValues, c \in CpuValues, r \in ReadValues }

FullAttrs ==
    [ActualRows |-> AInt(3), ActualElapsedms |-> AInt(40), ActualCPUms |-> AInt(30),
     ActualLogicalReads |-> AInt(20), ActualPhysicalReads |-> AInt(1),
     ActualReadAheads |-> AInt(2), ActualLobLogicalReads |-> AInt(4),
     ActualLobPhysicalReads |-> AInt(5)]

OtherAttrs ==
    [ActualRows |-> AInt(9), ActualElapsedms |-> AInt(2000), ActualCPUms |-> AInt(1),
     ActualLogicalReads |-> AInt(0)]

\* plans whose first runtime element carries only integer attributes
GoodRuntimePlans ==
    { PlanWithRuntime(a) : a \in CounterAttrs }
    \cup { PlanWithRuntime(FullAttrs),
           PlanWithRuntime([ActualCPUms |-> AInt(5)]),
           \* int() takes a sign
           PlanWithRuntime([FullAttrs EXCEPT !.ActualCPUms = AInt(-5)]),
           PlanWithRuntime(NoAttrs),
           \* two runtime elements: the first in document order is used
           PlanTree(ShowPlanXML(<<
               RelOp(NoAttrs, <<RunTimeInformation(<<RunTimeCountersPerThread(FullAttrs)>>)>>),
               RelOp(NoAttrs, <<RunTimeInformation(<<RunTimeCountersPerThread(OtherAttrs)>>)>>)>>)),
           \* only the first element's attributes are read
           PlanTree(ShowPlanXML(<<
               RunTimeCountersPerThread(FullAttrs),
               RunTimeCountersPerThread([OtherAttrs EXCEPT !.ActualRows = AStr(<<"many">>)])>>)),
           \* an element of the same name outside the namespace comes first
           PlanTree(ShowPlanXML(<<
               StripNamespace(RunTimeCountersPerThread(OtherAttrs)),
               RunTimeCountersPerThread(FullAttrs)>>)) }

\* plans whose first runtime element has an attribute int() rejects
BadAttributePlans ==
    { PlanWithRuntime([FullAttrs EXCEPT !.ActualElapsedms = ADec(40)]),
      PlanWithRuntime([FullAttrs EXCEPT !.ActualLobPhysicalReads = AStr(<<"n/a">>)]) }

\* plans with no runtime element below the root in the ShowPlan namespace
NoRuntimePlans ==
    { PlanTree(ShowPlanXML(<<RelOp(NoAttrs, <<>>)>>)),
      PlanTree(ShowPlanXML(<<>>)),
      \* no namespace declared at all
      PlanTree(StripNamespace(PlanWithRuntime(FullAttrs).root)),
      \* the runtime element is the root itself
      PlanTree(RunTimeCountersPerThread(FullAttrs)) }

RuntimePlanTexts ==
    GoodRuntimePlans \cup BadAttributePlans \cup NoRuntimePlans \cup {PlanMalformed, PlanEmpty}

\* plan documents with warnings and scan operators
Warnings(kids) == Elem("Warnings", TRUE, NoAttrs, kids)
ColumnsWithNoStatistics == Elem("ColumnsWithNoStatistics", TRUE, NoAttrs, <<>>)

\* <ShowPlanXML><RelOp><Warnings> n ColumnsWithNoStatistics elements
PlanWithWarnings(n) ==
    PlanTree(ShowPlanXML(<<RelOp(NoAttrs,
        <<Warnings([i \in 1..n |-> ColumnsWithNoStatistics])>>)>>))

\* <ShowPlanXML><RelOp LogicalOp=... EstimateRows=.../>
PlanWithOperator(logical_op, estimate_rows) ==
    PlanTree(ShowPlanXML(<<RelOp([LogicalOp |-> AStr(logical_op),
                                  EstimateRows |-> estimate_rows], <<>>)>>))

ClusteredIndexScan == <<"Clustered Index ", "Scan">>
IndexSeek == <<"Index ", "Seek">>

\* estimates float() accepts, around the threshold of 10000 rows
EstimateValues == {AInt(10000), AInt(10001), ADec(20000)}

\* plans every element of which is in the ShowPlan namespace and every
\* attribute of which the tool can read
WellFormedAntipatternPlans ==
    { PlanWithWarnings(n) : n \in {0, 1, 2, 7} }
    \cup { PlanWithOperator(op, r) : op \in {ClusteredIndexScan, IndexSeek},
                                     r \in EstimateValues }
    \cup { \* a seek: its estimate is never read
           PlanWithOperator(IndexSeek, AStr(<<"many">>)),
           \* a scan without an estimate, an operator without a LogicalOp
           PlanTree(ShowPlanXML(<<RelOp([LogicalOp |-> AStr(ClusteredIndexScan)], <<>>)>>)),
           PlanTree(ShowPlanXML(<<RelOp([EstimateRows |-> AInt(50000)], <<>>)>>)),
           \* two large scans and a warning
           PlanTree(ShowPlanXML(<<
               RelOp([LogicalOp |-> AStr(ClusteredIndexScan), EstimateRows |-> AInt(10001)],
                     <<Warnings(<<ColumnsWithNoStatistics>>),
                       RelOp([LogicalOp |-> AStr(<<"Table ", "Scan">>),
                              EstimateRows |-> ADec(20000)], <<>>)>>)>>)),
           \* a Warnings element inside another
           PlanTree(ShowPlanXML(<<Warnings(<<Warnings(<<ColumnsWithNoStatistics>>)>>)>>)) }

\* a scan operator whose estimate is not a number
BadEstimatePlans ==
    { PlanWithOperator(ClusteredIndexScan, AStr(<<"many">>)),
      PlanTree(ShowPlanXML(<<
          RelOp(NoAttrs, <<Warnings(<<ColumnsWithNoStatistics>>)>>),
          RelOp([LogicalOp |-> AStr(ClusteredIndexScan), EstimateRows |-> AStr(<<>>)],
                <<>>)>>)) }

\* documents that are not plans: no element in the ShowPlan namespace
ForeignPlans ==
    { PlanTree(StripNamespace(PlanWithWarnings(1).root)),
      PlanTree(StripNamespace(PlanWithOperator(ClusteredIndexScan, AStr(<<"many">>)).root)),
      PlanTree(Elem("html", FALSE, NoAttrs, <<Elem("body", FALSE, NoAttrs, <<>>)>>)) }

\* documents whose root is not ShowPlanXML although ShowPlan elements occur
UnexpectedRootPlans ==
    { PlanTree(Elem("Report", FALSE, NoAttrs, <<Warnings(<<ColumnsWithNoStatistics>>)>>)),
      PlanTree(Warnings(<<ColumnsWithNoStatistics>>)),
      PlanTree(RelOp([LogicalOp |-> AStr(ClusteredIndexScan), EstimateRows |-> AInt(10001)],
                     <<>>)),
      PlanTree(Elem("Report", FALSE, NoAttrs,
          <<RelOp([LogicalOp |-> AStr(ClusteredIndexScan),
                   EstimateRows |-> AStr(<<"many">>)], <<>>)>>)) }

AntipatternPlanTexts ==
    {PlanNone, PlanEmpty, PlanMalformed}
    \cup WellFormedAntipatternPlans \cup BadEstimatePlans \cup ForeignPlans
    \cup UnexpectedRootPlans

\* plan documents with missing-index hints
Column(name) == Elem("Column", TRUE, [Name |-> AStr(name)], <<>>)
ColumnGroup(usage, names) ==
    Elem("ColumnGroup", TRUE, [Usage |-> AStr(<<usage>>)],
         [i \in 1..Len(names) |-> Column(names[i])])
MissingIndex(attrs, col_groups) == Elem("MissingIndex", TRUE, attrs, col_groups)
MissingIndexGroup(attrs, kids) == Elem("MissingIndexGroup", TRUE, attrs, kids)
MissingIndexes(groups) == Elem("MissingIndexes", TRUE, NoAttrs, groups)

Bracketed(name) == <<"[", name, "]">>

\* the hint "index Orders on customer_id" with the given impact
OrdersHint(impact) ==
    MissingIndexGroup([Impact |-> impact],
        <<MissingIndex([Database |-> AStr(Bracketed("Sales")),
                        Schema |-> AStr(Bracketed("dbo")),
                        Table |-> AStr(Bracketed("Orders"))],
                       <<ColumnGroup("EQUALITY", <<Bracketed("customer_id")>>)>>)>>)

\* the hint "index Customers on region, city; status; include name"
CustomersHint ==
    MissingIndexGroup([Impact |-> ADec(55)],
        <<MissingIndex([Table |-> AStr(Bracketed("Customers"))],
                       <<ColumnGroup("EQUALITY", <<Bracketed("region"), Bracketed("city")>>),
                         ColumnGroup("INEQUALITY", <<Bracketed("status")>>),
                         ColumnGroup("INCLUDE", <<Bracketed("name")>>)>>)>>)

\* a hint that names no table, and a group without a MissingIndex element
TablelessHint ==
    MissingIndexGroup([Impact |-> ADec(70)],
        <<MissingIndex([Schema |-> AStr(Bracketed("dbo"))],
                       <<ColumnGroup("EQUALITY", <<Bracketed("id")>>)>>)>>)
EmptyGroup == MissingIndexGroup([Impact |-> ADec(70)], <<>>)

PlanWithHints(groups) == PlanTree(ShowPlanXML(<<MissingIndexes(groups)>>))

\* impact percentages around the priority thresholds
ImpactValues == {AInt(19), AInt(20), AInt(50), ADec(90), ADec(95)}

HintPlans ==
    { PlanWithHints(<<OrdersHint(i)>>) : i \in ImpactValues }
    \cup { PlanWithHints(<<CustomersHint>>),
           PlanWithHints(<<OrdersHint(ADec(95)), CustomersHint>>),
           PlanWithHints(<<TablelessHint, EmptyGroup, OrdersHint(ADec(95))>>),
           PlanWithHints(<<OrdersHint(AStr(<<"high">>))>>),
           PlanWithHints(<<>>) }

IndexPlanTexts ==
    {PlanNone, PlanEmpty, PlanMalformed}
    \cup HintPlans
    \cup { PlanTree(StripNamespace(PlanWithHints(<<OrdersHint(ADec(95))>>).root)),
           PlanTree(Elem("Report", FALSE, NoAttrs, <<OrdersHint(ADec(95))>>)),
           PlanTree(OrdersHint(ADec(95))) }

(***************************************************************************)
(* Collaborator outcomes.                                                  *)
(***************************************************************************)
ConnOk == [ok |-> TRUE, msg |-> ""]
ConnFailed(m) == [ok |-> FALSE, msg |-> m]
ConnOutcomes == {ConnOk} \cup { ConnFailed(m) : m \in FailureMessages }

\* data rows are numbered; only their number matters to the tools
DataRows(n) == [i \in 1..n |-> i]

ExecEnv(conn, stage, msg, result_sets, execution_time_ms, hash) ==
    [conn |-> conn, exec |-> [stage |-> stage, msg |-> msg],
     result_sets |-> result_sets, execution_time_ms |-> execution_time_ms, hash |-> hash]

HashFailed == [ok |-> FALSE, rows |-> <<>>]
HashOutcomes ==
    { HashFailed,
      [ok |-> TRUE, rows |-> <<>>],
      [ok |-> TRUE, rows |-> <<[query_hash |-> "0xA1", query_plan_hash |-> "0xB2"]>>] }

\* the result sets the engine returns for the batch: the query's rows, and
\* the plan when SET STATISTICS XML ON was part of the batch
ResultSetsFor(include_actual_plan) ==
    { <<[showplan |-> FALSE, rows |-> DataRows(n)]>> : n \in 0..MaxRows }
    \cup IF include_actual_plan
         THEN { <<[showplan |-> FALSE, rows |-> DataRows(n)],
                  [showplan |-> TRUE, rows |-> <<p>>]>> :
                n \in 0..MaxRows, p \in RuntimePlanTexts }
              \cup { <<[showplan |-> FALSE, rows |-> DataRows(1)],
                       [showplan |-> TRUE, rows |-> <<>>]>> }
         ELSE {}

ExecEnvs(include_actual_plan) ==
    { ExecEnv(ConnFailed(m), "none", "", <<>>, 0, HashFailed) : m \in FailureMessages }
    \cup { ExecEnv(ConnOk, st, m, <<>>, 0, HashFailed) :
           st \in {"connect", "execute"}, m \in FailureMessages }
    \cup { ExecEnv(ConnOk, "ok", "", rs, w, h) :
           rs \in ResultSetsFor(include_actual_plan), w \in WallClockValues,
           h \in HashOutcomes }

\* statistics rows as the statistics query returns them: days_old and
\* last_updated both derive from STATS_DATE and are NULL together
StatRow(days_old, modification_percent) ==
    [statistics_name |-> "st",
     last_updated |-> IF days_old = None THEN None ELSE Some("2025-01-01 00:00:00"),
     days_old |-> days_old,
     modification_percent |-> modification_percent]

DaysOldValues == {None, Some(10), Some(30), Some(31), Some(90), Some(91)}
ModPercentValues == {None, Some(0), Some(20), Some(21), Some(50), Some(51), Some(55)}

StatRows == { StatRow(d, m) : d \in DaysOldValues, m \in ModPercentValues }
FewStatRows == { StatRow(Some(10), Some(55)), StatRow(Some(31), Some(0)),
                 StatRow(None, Some(21)) }

\* the sequences over S of length at most n
RECURSIVE SeqsUpTo(_, _)
SeqsUpTo(S, n) ==
    IF n = 0 THEN {<<>>}
    ELSE LET shorter == SeqsUpTo(S, n - 1)
         IN shorter \cup { Append(q, x) : q \in shorter, x \in S }

QueryFailed(m) == [ok |-> FALSE, rows |-> <<>>, msg |-> m]
QueryRows(rows) == [ok |-> TRUE, rows |-> rows, msg |-> ""]

\* what execute_query gives for one table's statistics query
TableOutcomes ==
    { QueryFailed("Invalid object name") }
    \cup { QueryRows(rows) : rows \in SeqsUpTo(FewStatRows, MaxRows) }
SingleTableOutcomes == TableOutcomes \cup { QueryRows(<<r>>) : r \in StatRows }

DbConfigOutcomes ==
    { QueryFailed("Connection timeout"), QueryRows(<<>>),
      QueryRows(<<[auto_update_enabled |-> TRUE, auto_create_enabled |-> FALSE]>>) }

TableNames == {"dbo.Orders", "dbo.Customers"}
TableNameLists == {None} \cup { Some(l) : l \in SeqsUpTo(TableNames, MaxTables) }

StatsEnv(conn, db_config, tables) == [conn |-> conn, db_config |-> db_config, tables |-> tables]

StatsEnvs(table_names) ==
    LET n == IF table_names = None THEN 0 ELSE Len(table_names[1])
    IN { StatsEnv(ConnFailed(m), QueryRows(<<>>), <<>>) : m \in FailureMessages }
       \cup IF n = 0 THEN { StatsEnv(ConnOk, QueryRows(<<>>), <<>>) }
            ELSE IF n = 1
            THEN { StatsEnv(ConnOk, c, <<t>>) : c \in DbConfigOutcomes,
                                                 t \in SingleTableOutcomes }
            ELSE { StatsEnv(ConnOk, c, ts) : c \in DbConfigOutcomes,
                                              ts \in [1..n -> TableOutcomes] }

StatsPlanTexts == {PlanNone, PlanEmpty, PlanMalformed, PlanWithRuntime(FullAttrs)}

TimeoutValues == {1, 30}
DatabaseNames == {None, Some("Sales")}

\* rows of the missing-index DMV query
DmvRow(table, equality_columns, inequality_columns, included_columns, impact_score, user_seeks) ==
    [table_name |-> Bracketed("Sales") \o <<".">> \o Bracketed("dbo") \o <<".">>
                    \o Bracketed(table),
     equality_columns |-> equality_columns,
     inequality_columns |-> inequality_columns,
     included_columns |-> included_columns,
     avg_user_impact |-> 95,
     avg_total_user_cost |-> 12,
     user_seeks |-> user_seeks,
     user_scans |-> 3,
     last_user_seek |-> Some("2025-01-01 00:00:00"),
     impact_score |-> impact_score]

\* "index Orders on customer_id", as the DMVs report it
OrdersRow(impact_score, user_seeks) ==
    DmvRow("Orders", Some(Bracketed("customer_id")), None, None, impact_score, user_seeks)

CustomersRow ==
    DmvRow("Customers", Some(Bracketed("region") \o <<", ">> \o Bracketed("city")),
           Some(Bracketed("status")), Some(Bracketed("name")), Some(500), 5)

\* impact scores and seek counts around the priority thresholds
ImpactScoreValues == {Some(999), Some(10000), Some(10001), Some(100000), Some(100001)}
UserSeekValues == {1000, 1001}

DmvRows ==
    { OrdersRow(s, u) : s \in ImpactScoreValues, u \in UserSeekValues }
    \cup { CustomersRow, OrdersRow(None, 5) }
FewDmvRows == { OrdersRow(Some(100001), 1001), CustomersRow, OrdersRow(None, 5) }

MissingOutcomes ==
    { QueryFailed(m) : m \in FailureMessages }
    \cup { QueryRows(rows) : rows \in SeqsUpTo(FewDmvRows, MaxRows) }
    \cup { QueryRows(<<r>>) : r \in DmvRows }

\* rows of the existing-index query
ExistingRow(user_seeks, user_lookups, user_updates) ==
    [table_name |-> "dbo.Orders", index_name |-> "IX_Orders_status",
     user_seeks |-> user_seeks, user_scans |-> 0, user_lookups |-> user_lookups,
     user_updates |-> user_updates, last_user_seek |-> None, size_mb |-> 4]

ExistingRows ==
    { ExistingRow(s, l, u) : s \in {0, 9}, l \in {0, 1}, u \in {100, 101, 1000, 1001} }

ExistingOutcomes ==
    { QueryFailed(m) : m \in FailureMessages }
    \cup { QueryRows(<<>>),
           QueryRows(<<ExistingRow(0, 0, 101), ExistingRow(9, 1, 1001)>>) }
    \cup { QueryRows(<<r>>) : r \in ExistingRows }

IndexEnv(conn, missing, existing) == [conn |-> conn, missing |-> missing, existing |-> existing]

IndexEnvs ==
    { IndexEnv(ConnFailed(m), QueryRows(<<>>), QueryRows(<<>>)) : m \in FailureMessages }
    \cup { IndexEnv(ConnOk, m, x) : m \in MissingOutcomes, x \in ExistingOutcomes }

\* outcomes for the server-level tools
SimpleEnv(conn, query) == [conn |-> conn, query |-> query]

SimpleEnvs(results) ==
    { SimpleEnv(ConnFailed(m), QueryRows(<<>>)) : m \in FailureMessages }
    \cup { SimpleEnv(ConnOk, QueryFailed(m)) : m \in FailureMessages }
    \cup { SimpleEnv(ConnOk, QueryRows(rows)) : rows \in results }

VersionRow(server_name) ==
    [Version |-> Some("Microsoft SQL Server 2022"), ServerName |-> server_name]
VersionResults == { <<>>, <<VersionRow(Some("SQL01"))>>, <<VersionRow(None)>> }

DatabaseRow(name, database_id) ==
    [name |-> name, database_id |-> Some(database_id),
     create_date |-> Some("2024-05-01 10:00:00"), state_desc |-> Some("ONLINE"),
     recovery_model_desc |-> Some("FULL"), compatibility_level |-> Some(160)]
DatabaseRows == { DatabaseRow(Some("master"), 1), DatabaseRow(Some("Sales"), 5),
                  DatabaseRow(None, 6) }
DatabaseResults == SeqsUpTo(DatabaseRows, MaxRows)

SessionRow(sql_text, blocking_session_id) ==
    [sql_text |-> sql_text, session_id |-> Some(51), status |-> Some("running"),
     command |-> Some("SELECT"), cpu_seconds |-> Some(1), elapsed_seconds |-> Some(2),
     reads |-> Some(0), logical_reads |-> Some(10), wait_time |-> Some(0),
     last_wait_type |-> None, blocking_session_id |-> blocking_session_id,
     connect_time |-> None, dop |-> Some(1), host_name |-> None, program_name |-> None,
     database_name |-> Some("Sales"), login_name |-> None]
SessionRows == { SessionRow(Some("SELECT 1"), None), SessionRow(Some("UPDATE T"), Some(51)),
                 SessionRow(None, None) }
SessionResults == SeqsUpTo(SessionRows, MaxRows)

SchedulerRow(scheduler_count, avg_runnable_tasks, avg_pending_disk_io_count) ==
    [scheduler_count |-> scheduler_count, avg_runnable_tasks |-> avg_runnable_tasks,
     avg_pending_disk_io_count |-> avg_pending_disk_io_count]
\* averages in hundredths, around the bands of the interpretation
AvgRunnableValues == {0, 25, 50, 75, 200, 225, 500, 525}
AvgPendingIoValues == {0, 100, 125, 500, 525, 1000, 1025}
SchedulerResults ==
    { <<>>, <<SchedulerRow(0, None, None)>> }
    \cup { <<SchedulerRow(c, Some(a), Some(p))>> :
           c \in {3, 8}, a \in AvgRunnableValues, p \in AvgPendingIoValues }

ConfigRow(name, value, severity, message, recommendation) ==
    [name |-> name, value |-> value, severity |-> severity, message |-> message,
     recommendation |-> recommendation]
ConfigRows ==
    { ConfigRow("max degree of parallelism", 0, "WARNING",
                Some("Unlimited parallelism can cause CXPACKET waits"),
                Some("Recommend setting to: 8 (physical CPU count, max 8)")),
      ConfigRow("cost threshold for parallelism", 50, "OK", Some("Good starting point"), None),
      ConfigRow("max server memory (MB)", 4096, "UNKNOWN", Some("?"), None),
      ConfigRow("max server memory (MB)", 4096, "CRITICAL", None, None) }
ConfigResults == SeqsUpTo(ConfigRows, MaxRows)

MemoryRow(ple_seconds, memory_grants_pending) ==
    [server_name |-> "SQL01", check_timestamp |-> "2025-01-01 00:00:00",
     ple_seconds |-> ple_seconds, memory_grants_pending |-> memory_grants_pending,
     target_memory_mb |-> Some(8192), total_memory_mb |-> Some(8000),
     overall_assessment |-> "OK: Memory appears healthy"]
MemoryResults ==
    { <<>>, <<MemoryRow(Some(4000), Some(0))>>, <<MemoryRow(Some(200), Some(2))>>,
      <<MemoryRow(None, Some(0))>> }

\* object names handed to find_object_database and what it is told
ObjectNames ==
    { <<"Orders">>,
      <<"dbo", ".", "Orders">>,
      Bracketed("Sales") \o <<".">> \o Bracketed("dbo") \o <<".">> \o Bracketed("Orders"),
      <<"SQL01", ".", "Sales", ".", "dbo", ".", "Orders">> }

DatabaseNameRows(names) == [i \in 1..Len(names) |-> [name |-> <<names[i]>>]]
DatabaseListOutcomes ==
    { QueryFailed(m) : m \in FailureMessages }
    \cup { QueryRows(DatabaseNameRows(names)) :
           names \in { <<>>, <<"Sales">>, <<"A", "B", "C", "D", "E", "F">> } }

ObjectRow(database_name) ==
    [database_name |-> <<database_name>>, schema_name |-> <<"dbo">>,
     object_name |-> <<"Orders">>, object_type |-> "USER_TABLE"]
SearchOutcomes ==
    { QueryFailed(m) : m \in FailureMessages }
    \cup { QueryRows(<<>>), QueryRows(<<ObjectRow("Sales")>>),
           QueryRows(<<ObjectRow("Archive"), ObjectRow("Sales")>>) }

FindEnv(conn, db_list, search) == [conn |-> conn, db_list |-> db_list, search |-> search]
FindEnvs ==
    { FindEnv(ConnFailed(m), QueryRows(<<>>), QueryRows(<<>>)) : m \in FailureMessages }
    \cup { FindEnv(ConnOk, l, s) : l \in DatabaseListOutcomes, s \in SearchOutcomes }

(***************************************************************************)
(* The tools as actions.                                                   *)
(***************************************************************************)
\* A tool is invoked when no invocation is in progress (Idle); its envelope
\* is recorded until the caller takes it (Return).
Idle == tool = "none"

Record(name, a, e, o) ==
    /\ tool' = name
    /\ args' = a
    /\ env' = e
    /\ resp' = o.resp
    /\ raised' = o.raised
    /\ sent' = o.sent
    /\ UNCHANGED kept

AnalyzeQueryExecution ==
    /\ Idle
    /\ \E q \in ExecQueries, db \in DatabaseNames, iap \in BOOLEAN, t \in TimeoutValues :
        \E e \in ExecEnvs(iap) :
            Record("analyze_query_execution",
                   [query |-> q, database_name |-> db, include_actual_plan |-> iap,
                    max_execution_time_seconds |-> t],
                   e,
                   analyze_query_execution(q, db, iap, t, e))

Init ==
    /\ tool = "none"
    /\ args = <<>>
    /\ env = <<>>
    /\ resp = <<>>
    /\ raised = FALSE
    /\ sent = <<>>
    /\ kept = None

GetQueryStatisticsHealth ==
    /\ Idle
    /\ \E db \in {"Sales"}, tn \in TableNameLists, p \in StatsPlanTexts :
        \E e \in StatsEnvs(tn) :
            Record("get_query_statistics_health",
                   [database_name |-> db, table_names |-> tn, execution_plan_xml |-> p],
                   e,
                   get_query_statistics_health(db, tn, p, e))

\* The caller takes the response; nothing of the invocation is kept.
Return ==
    /\ tool # "none"
    /\ tool' = "none"
    /\ args' = <<>>
    /\ env' = <<>>
    /\ resp' = <<>>
    /\ raised' = FALSE
    /\ sent' = <<>>
    /\ kept' = IF kept = None THEN None
               ELSE Some([kept[1] EXCEPT !.since = @ \cup {resp.success}])

\* the calls whose response the caller keeps for a later comparison
KeptQueries == {TXT_SelectStar, TXT_Everything}
KeptPlans == {PlanNone, PlanWithOperator(ClusteredIndexScan, AStr(<<"many">>))}

\* The caller takes the response of a detect_query_antipatterns call and
\* keeps it; the server keeps nothing of the invocation.
ReturnKept ==
    /\ tool = "detect_query_antipatterns"
    /\ kept = None
    /\ args.query \in KeptQueries
    /\ args.execution_plan_xml \in KeptPlans
    /\ tool' = "none"
    /\ args' = <<>>
    /\ env' = <<>>
    /\ resp' = <<>>
    /\ raised' = FALSE
    /\ sent' = <<>>
    /\ kept' = Some([args |-> args, resp |-> resp, since |-> {}])

\* _parse_runtime_stats_from_plan applied to a plan text
ParseRuntimeStats ==
    /\ Idle
    /\ \E p \in RuntimePlanTexts :
          LET r == parse_runtime_stats_from_plan(p)
          IN Record("_parse_runtime_stats_from_plan", [plan_xml |-> p], <<>>,
                    [resp |-> r.stats, raised |-> r.exc # NoExc, sent |-> <<>>])

AnalyzeMissingIndexes ==
    /\ Idle
    /\ \E db \in {"Sales"}, p \in IndexPlanTexts, e \in IndexEnvs :
          Record("analyze_missing_indexes",
                 [database_name |-> db, execution_plan_xml |-> p],
                 e,
                 analyze_missing_indexes(db, p, e))

DetectQueryAntipatterns ==
    /\ Idle
    /\ \E q \in AntipatternQueries, p \in AntipatternPlanTexts :
          Record("detect_query_antipatterns",
                 [query |-> q, execution_plan_xml |-> p],
                 <<>>,
                 Outcome(detect_query_antipatterns(q, p), <<>>))

NextIndexes == AnalyzeMissingIndexes \/ Return

SpecIndexes == Init /\ [][NextIndexes]_vars

NextAntipatterns == DetectQueryAntipatterns \/ Return

SpecAntipatterns == Init /\ [][NextAntipatterns]_vars

NextExec == AnalyzeQueryExecution \/ ParseRuntimeStats \/ Return

SpecExec == Init /\ [][NextExec]_vars

NextStats == GetQueryStatisticsHealth \/ Return

SpecStats == Init /\ [][NextStats]_vars

NoArgs == [x \in {} |-> <<>>]

GetServerVersion ==
    /\ Idle
    /\ \E e \in SimpleEnvs(VersionResults) :
          Record("get_server_version", NoArgs, e, get_server_version(e))

ListDatabases ==
    /\ Idle
    /\ \E e \in SimpleEnvs(DatabaseResults) :
          Record("list_databases", NoArgs, e, list_databases(e))

GetActiveSessions ==
    /\ Idle
    /\ \E e \in SimpleEnvs(SessionResults) :
          Record("get_active_sessions", NoArgs, e, get_active_sessions(e))

GetSchedulerStats ==
    /\ Idle
    /\ \E e \in SimpleEnvs(SchedulerResults) :
          Record("get_scheduler_stats", NoArgs, e, get_scheduler_stats(e))

GetServerConfigurations ==
    /\ Idle
    /\ \E e \in SimpleEnvs(ConfigResults) :
          Record("get_server_configurations", NoArgs, e, get_server_configurations(e))

GetMemoryStats ==
    /\ Idle
    /\ \E e \in SimpleEnvs(MemoryResults) :
          Record("get_memory_stats", NoArgs, e, get_memory_stats(e))

FindObjectDatabase ==
    /\ Idle
    /\ \E n \in ObjectNames, e \in FindEnvs :
          Record("find_object_database", [object_name |-> n], e, find_object_database(n, e))

\* the two tools that read a plan document handed in by the caller
NextPlans == AnalyzeMissingIndexes \/ DetectQueryAntipatterns \/ Return

SpecPlans == Init /\ [][NextPlans]_vars

\* detect_query_antipatterns called again and again, calls of another tool
\* in between
NextSessions == DetectQueryAntipatterns \/ GetServerVersion \/ Return \/ ReturnKept

SpecSessions == Init /\ [][NextSessions]_vars

\* every tool of the server
Next ==
    \/ GetServerVersion
    \/ ListDatabases
    \/ GetActiveSessions
    \/ GetSchedulerStats
    \/ GetServerConfigurations
    \/ GetMemoryStats
    \/ AnalyzeQueryExecution
    \/ GetQueryStatisticsHealth
    \/ AnalyzeMissingIndexes
    \/ DetectQueryAntipatterns
    \/ FindObjectDatabase
    \/ Return

Spec == Init /\ [][Next]_vars

(***************************************************************************)
(* Properties of analyze_query_execution and the runtime-counter parser,   *)
(* checked under SpecExec.                                                 *)
(***************************************************************************)
ExecSucceeded == tool = "analyze_query_execution" /\ ~raised /\ resp.success

\* C1: the bottleneck type of a successful analyze_query_execution response
\* is determined by (cpu_time_ms, duration_ms, physical_reads, logical_reads)
\* of its metrics: with logical_reads > 0 it is CPU_BOUND if
\* cpu_time_ms / duration_ms * 100 > 70 (0 when duration_ms = 0), else
\* IO_BOUND if physical_reads > 0.1 * logical_reads, else MEMORY_BOUND; with
\* logical_reads = 0 it is UNKNOWN if duration_ms > 1000 and null otherwise.
\* All comparisons are strict.
C1_BottleneckIsThresholdFunction ==
    ExecSucceeded =>
        LET m == resp.execution_metrics[1]
            cpuAbove == m.duration_ms # 0 /\ 100 * m.cpu_time_ms > 70 * m.duration_ms
            ioAbove == 10 * m.physical_reads > m.logical_reads
        IN /\ (m.logical_reads > 0 /\ cpuAbove) => resp.bottleneck_type = Some("CPU_BOUND")
           /\ (m.logical_reads > 0 /\ ~cpuAbove /\ ioAbove)
                  => resp.bottleneck_type = Some("IO_BOUND")
           /\ (m.logical_reads > 0 /\ ~cpuAbove /\ ~ioAbove)
                  => resp.bottleneck_type = Some("MEMORY_BOUND")
           /\ (m.logical_reads = 0 /\ m.duration_ms > 1000)
                  => resp.bottleneck_type = Some("UNKNOWN")
           /\ (m.logical_reads = 0 /\ m.duration_ms <= 1000) => resp.bottleneck_type = None

\* C1 witness: exactly 70% CPU and a physical/logical ratio of exactly 0.1,
\* classified neither CPU_BOUND nor IO_BOUND
C1_Witness_ExactBoundaries ==
    /\ ExecSucceeded
    /\ resp.execution_metrics[1].logical_reads > 0
    /\ 100 * resp.execution_metrics[1].cpu_time_ms = 70 * resp.execution_metrics[1].duration_ms
    /\ 10 * resp.execution_metrics[1].physical_reads = resp.execution_metrics[1].logical_reads
    /\ resp.bottleneck_type = Some("MEMORY_BOUND")

\* C7: a query that is not a SELECT statement is rejected (success = false,
\* error 'Only SELECT queries are allowed for analysis' whenever connecting
\* is not what failed) and none of its statements is sent to the database
\* engine.
C7_NonSelectRejectedAndNeverSent ==
    (tool = "analyze_query_execution" /\ ~IsSelectOnly(args.query)) =>
        /\ resp.success = FALSE
        /\ sent = <<>>
        /\ (env.conn.ok /\ env.exec.stage # "connect") =>
               resp.error = Some(<<"Only SELECT queries are allowed for analysis">>)

\* the plan text the call captured is absent (None or empty)
ExecRanWithoutPlan ==
    /\ tool = "analyze_query_execution"
    /\ PassesSelectGate(args.query)
    /\ env.conn.ok
    /\ env.exec.stage = "ok"
    /\ ~Truthy(ProcessResultSets(env.result_sets, args.include_actual_plan,
                                 [results |-> <<>>, execution_plan_xml |-> PlanNone])
                   .execution_plan_xml)

ZeroedCostFields(m) ==
    /\ m.cpu_time_ms = 0 /\ m.logical_reads = 0 /\ m.physical_reads = 0
    /\ m.read_ahead_reads = 0 /\ m.lob_logical_reads = 0 /\ m.lob_physical_reads = 0
    /\ m.estimated_cost = 0

\* C8 (as stated): without plan XML the call does not raise, the cost-related
\* fields are zero, and the bottleneck is UNKNOWN if duration > 1000 ms and
\* MEMORY_BOUND otherwise.
C8_NoPlanMemoryBoundOrUnknown ==
    ExecRanWithoutPlan =>
        /\ ~raised /\ resp.success
        /\ ZeroedCostFields(resp.execution_metrics[1])
        /\ resp.bottleneck_type =
               IF resp.execution_metrics[1].duration_ms > 1000
               THEN Some("UNKNOWN") ELSE Some("MEMORY_BOUND")

\* C8 (amended): without plan XML the call does not raise, the cost-related
\* fields are zero, duration is the wall-clock time, and the bottleneck is
\* UNKNOWN if duration > 1000 ms and null otherwise; it is never MEMORY_BOUND.
C8_NoPlanNullOrUnknown ==
    ExecRanWithoutPlan =>
        /\ ~raised /\ resp.success
        /\ ZeroedCostFields(resp.execution_metrics[1])
        /\ resp.execution_metrics[1].duration_ms = env.execution_time_ms
        /\ resp.bottleneck_type =
               IF env.execution_time_ms > 1000 THEN Some("UNKNOWN") ELSE None

\* C8 witness: a call without plan XML that took at most 1000 ms
C8_Witness_NoPlanFastQuery ==
    /\ ExecRanWithoutPlan
    /\ env.execution_time_ms <= 1000
    /\ resp.success
    /\ resp.bottleneck_type = None

\* the RunTimeCountersPerThread elements of the ShowPlan namespace below
\* the root, and in the whole document (root included), in document order
C10_BelowRoot(plan) == SelectTag(DescendantsOfAll(plan.root.kids), "RunTimeCountersPerThread")
C10_Anywhere(plan) == SelectTag(DescendantsOfAll(<<plan.root>>), "RunTimeCountersPerThread")

C10_AllIntegers(e) == \A a \in DOMAIN e.attrs : e.attrs[a].t = "int"
C10_Counter(e, name) == IF name \in DOMAIN e.attrs THEN e.attrs[name].n ELSE 0
C10_Counters(e) ==
    [actual_rows |-> C10_Counter(e, "ActualRows"),
     actual_elapsed_ms |-> C10_Counter(e, "ActualElapsedms"),
     actual_cpu_ms |-> C10_Counter(e, "ActualCPUms"),
     actual_logical_reads |-> C10_Counter(e, "ActualLogicalReads"),
     actual_physical_reads |-> C10_Counter(e, "ActualPhysicalReads"),
     actual_read_aheads |-> C10_Counter(e, "ActualReadAheads"),
     actual_lob_logical_reads |-> C10_Counter(e, "ActualLobLogicalReads"),
     actual_lob_physical_reads |-> C10_Counter(e, "ActualLobPhysicalReads")]

C10_Expected(plan, elements) ==
    IF plan.kind = "tree" /\ elements # <<>> /\ C10_AllIntegers(elements[1])
    THEN Some(C10_Counters(elements[1]))
    ELSE None

\* C10 (as stated): _parse_runtime_stats_from_plan never raises; it returns
\* the counters of the first RunTimeCountersPerThread element of the document
\* when one exists and its attributes are integers, and None otherwise.
C10_FirstRuntimeElementOfDocument ==
    tool = "_parse_runtime_stats_from_plan" =>
        /\ ~raised
        /\ resp = C10_Expected(args.plan_xml, C10_Anywhere(args.plan_xml))

\* C10 (amended): _parse_runtime_stats_from_plan never raises; it returns the
\* counters of the first RunTimeCountersPerThread element below the root
\* element (missing attributes 0) when one exists and its attributes are
\* integers, and None otherwise: malformed XML, no such element below the
\* root (the root itself is not considered), wrong namespace, or an attribute
\* that is not an integer.
C10_FirstRuntimeElementBelowRoot ==
    tool = "_parse_runtime_stats_from_plan" =>
        /\ ~raised
        /\ resp = C10_Expected(args.plan_xml, C10_BelowRoot(args.plan_xml))

\* C10 witness: an attribute that is not an integer yields None
C10_Witness_NonIntegerAttribute ==
    /\ tool = "_parse_runtime_stats_from_plan"
    /\ args.plan_xml.kind = "tree"
    /\ C10_BelowRoot(args.plan_xml) # <<>>
    /\ ~C10_AllIntegers(C10_BelowRoot(args.plan_xml)[1])
    /\ resp = None
    /\ ~raised

(***************************************************************************)
(* Properties of get_query_statistics_health, checked under SpecStats.     *)
(***************************************************************************)
C3_RowOk(r) ==
    LET high == r.modification_percent > 50 \/ r.days_old > 90
    IN /\ r.needs_update = (r.days_old > 30 \/ r.modification_percent > 20)
       /\ (r.severity = "HIGH") = high
       /\ high => r.recommendation = Some(<<"UPDATE STATISTICS ", r.table, " WITH FULLSCAN;">>)
       /\ (r.severity = "WARNING") = (r.needs_update /\ ~high)
       /\ (r.severity = "OK") = (~r.needs_update /\ ~high)
       /\ r.severity \in {"OK", "WARNING", "HIGH"}

\* C3: for every analysed statistics row, needs_update = (days_old > 30 or
\* modification_percent > 20); severity is HIGH iff (modification_percent >
\* 50 or days_old > 90), with a WITH FULLSCAN command recommended; WARNING
\* iff needs_update and not HIGH; OK otherwise.
C3_StatisticsSeverity ==
    tool = "get_query_statistics_health" =>
        \A i \in 1..Len(resp.statistics_analysis) : C3_RowOk(resp.statistics_analysis[i])

\* C3 witness: modification_percent = 55 with days_old = 10 is HIGH
C3_Witness_Mod55Days10 ==
    /\ tool = "get_query_statistics_health"
    /\ \E i \in 1..Len(resp.statistics_analysis) :
          /\ resp.statistics_analysis[i].modification_percent = 55
          /\ resp.statistics_analysis[i].days_old = 10
          /\ resp.statistics_analysis[i].needs_update
          /\ resp.statistics_analysis[i].severity = "HIGH"

(***************************************************************************)
(* Properties of detect_query_antipatterns and analyze_missing_indexes     *)
(***************************************************************************)
DetectCalled == tool = "detect_query_antipatterns"
IndexesCalled == tool = "analyze_missing_indexes"

C4_HintsOf(plan) ==
    IF ~Truthy(plan) \/ ET_fromstring(plan).exc # NoExc THEN <<>>
    ELSE SelectSeq(FindAll(ET_fromstring(plan).root, "MissingIndexGroup"),
                   LAMBDA g :
                       /\ FloatOf(GetAttr(g, "Impact", AInt(0))).exc = NoExc
                       /\ FindAll(g, "MissingIndex") # <<>>
                       /\ PlanMissingIndex(FindAll(g, "MissingIndex")[1], 0).table # <<>>)

\* C4: the missing_indexes list of a successful analyze_missing_indexes is
\* the DMV-sourced recommendations followed by one plan-sourced
\* recommendation per missing-index hint of the plan, nothing removed: a
\* table recommended by both sources appears twice.
C4_DmvThenOnePerPlanHint ==
    (IndexesCalled /\ resp.success) =>
        LET dmv == DmvMissingIndexes(env.missing.rows, args.database_name, <<>>).missing_indexes
            hints == C4_HintsOf(args.execution_plan_xml)
        IN /\ Len(resp.missing_indexes) = Len(dmv) + Len(hints)
           /\ SubSeq(resp.missing_indexes, 1, Len(dmv)) = dmv
           /\ \A i \in 1..Len(hints) :
                  resp.missing_indexes[Len(dmv) + i].table
                    = PlanMissingIndex(FindAll(hints[i], "MissingIndex")[1], 0).table

\* the response of the invocation in progress had no plan document been given
NoPlanResponse ==
    IF DetectCalled THEN detect_query_antipatterns(args.query, PlanNone)
    ELSE analyze_missing_indexes(args.database_name, PlanNone, env).resp

\* C9, as stated: when the plan document given to detect_query_antipatterns
\* or analyze_missing_indexes is malformed, has a root other than
\* ShowPlanXML, or a root outside the ShowPlan namespace, the response is
\* the one the same call gives without a plan document.
C9_DegradedPlanIsNoPlan ==
    ((DetectCalled \/ IndexesCalled)
       /\ \/ args.execution_plan_xml.kind = "malformed"
          \/ /\ args.execution_plan_xml.kind = "tree"
             /\ \/ args.execution_plan_xml.root.tag # "ShowPlanXML"
                \/ ~args.execution_plan_xml.root.ns)
    => resp = NoPlanResponse

\* no element below the root of the document is in the ShowPlan namespace
NoShowPlanElementBelowRoot(plan) ==
    /\ plan.kind = "tree"
    /\ \A i \in 1..Len(Descendants(plan.root)) : ~Descendants(plan.root)[i].ns

\* C9, amended: when the plan document is malformed, or well-formed with no
\* element of the ShowPlan namespace below its root, the response is the
\* one the same call gives without a plan document, and that of
\* detect_query_antipatterns is a success; the name of the root is not
\* looked at.
C9_UnreadablePlanIsNoPlan ==
    ((DetectCalled \/ IndexesCalled)
       /\ \/ args.execution_plan_xml.kind = "malformed"
          \/ NoShowPlanElementBelowRoot(args.execution_plan_xml))
    => /\ resp = NoPlanResponse
       /\ DetectCalled => resp.success

\* a malformed plan document given with a query text that has findings
C9_Witness_MalformedPlanKeepsTextFindings ==
    /\ DetectCalled
    /\ args.execution_plan_xml.kind = "malformed"
    /\ resp.success
    /\ resp.antipatterns_found # <<>>
    /\ resp.query_complexity_score > 10

(***************************************************************************)
(* Properties of every tool                                                *)
(***************************************************************************)
OneQueryTools ==
    {"get_server_version", "list_databases", "get_active_sessions", "get_scheduler_stats",
     "get_server_configurations", "get_memory_stats"}

\* the error text of the failure of get_connection or of the tool's own
\* query in the invocation in progress, None when neither failed; a query
\* fails only if the tool gets as far as sending it
FailureOfCall ==
    CASE tool \in OneQueryTools ->
           IF ~env.conn.ok THEN Some(<<env.conn.msg>>)
           ELSE IF ~env.query.ok THEN Some(<<env.query.msg>>)
           ELSE None
      [] tool = "analyze_query_execution" ->
           IF ~PassesSelectGate(args.query) THEN None
           ELSE IF ~env.conn.ok THEN Some(<<env.conn.msg>>)
           ELSE IF env.exec.stage # "ok"
           THEN Some(<<"Query execution failed: ", env.exec.msg>>)
           ELSE None
      [] tool = "get_query_statistics_health" ->
           IF ~env.conn.ok THEN Some(<<env.conn.msg>>) ELSE None
      [] tool = "analyze_missing_indexes" ->
           IF ~env.conn.ok THEN Some(<<env.conn.msg>>)
           ELSE IF ~env.missing.ok THEN Some(<<env.missing.msg>>)
           ELSE IF Len(sent) = 2 /\ ~env.existing.ok
           THEN Some(<<env.existing.msg>>)
           ELSE None
      [] tool = "find_object_database" ->
           IF ~env.conn.ok THEN Some(<<env.conn.msg>>)
           ELSE IF Len(sent) > 0 /\ sent[1] = DatabasesQuery /\ ~env.db_list.ok
           THEN Some(<<env.db_list.msg>>)
           ELSE IF Len(sent) > 0 /\ sent[Len(sent)] # DatabasesQuery /\ ~env.search.ok
           THEN Some(<<env.search.msg>>)
           ELSE None
      [] OTHER -> None

\* a query failed whose failure the tool logs: the hash lookup of
\* analyze_query_execution, the database-configuration query and the
\* per-table statistics queries of get_query_statistics_health
SecondaryQueryFailed ==
    \/ /\ tool = "analyze_query_execution"
       /\ Len(sent) = 2
       /\ ~env.hash.ok
    \/ /\ tool = "get_query_statistics_health"
       /\ Len(sent) > 0
       /\ \/ ~env.db_config.ok
          \/ \E i \in 1..Len(env.tables) : ~env.tables[i].ok

\* C5, as stated: in every tool a failure of get_connection, execute_query
\* or the pyodbc execution ends in a failed envelope whose error is set;
\* none ends in success.
C5_EveryFailureFailsTheCall ==
    (FailureOfCall # None \/ SecondaryQueryFailed) =>
        /\ ~resp.success
        /\ resp.error # None

\* C5, amended: a failure of get_connection or of the tool's own query ends
\* in a failed envelope whose error is the failure's message (after
\* "Query execution failed: " for the pyodbc execution); a failure of the
\* hash lookup, of the database-configuration query or of a per-table
\* statistics query alone leaves the call a success.
C5_PrimaryFailureFailsTheCall ==
    /\ FailureOfCall # None => (~resp.success /\ resp.error = FailureOfCall)
    /\ (FailureOfCall = None /\ SecondaryQueryFailed) => (resp.success /\ resp.error = None)

\* the second query of analyze_missing_indexes fails after the first gave rows
C5_Witness_ExistingIndexQueryFails ==
    /\ IndexesCalled
    /\ env.missing.ok
    /\ env.missing.rows # <<>>
    /\ ~env.existing.ok
    /\ Len(sent) = 2
    /\ ~resp.success
    /\ resp.error = Some(<<"Connection timeout">>)

\* C6: every invocation of a tool ends by returning an envelope and never
\* by raising, and in the envelope error is null exactly when success is
\* true.
C6_EnvelopeAlwaysReturned ==
    tool # "none" =>
        /\ ~raised
        /\ resp.success \in BOOLEAN
        /\ (resp.error = None) <=> resp.success
        /\ resp.error # None => Len(resp.error) = 1

\* get_scheduler_stats raises in its own try block when the query gives no
\* row, and returns the failed envelope
C6_Witness_NoSchedulerRow ==
    /\ tool = "get_scheduler_stats"
    /\ env.conn.ok
    /\ env.query.ok
    /\ env.query.rows = <<>>
    /\ ~raised
    /\ ~resp.success
    /\ resp.error = Some(<<"No scheduler statistics returned">>)

\* C11: in every successful detect_query_antipatterns response
\* rewrite_priority is HIGH if a finding has severity HIGH, else MEDIUM if
\* one has severity MEDIUM, else LOW if there is a finding, else NONE; it
\* is NONE exactly when antipatterns_found is empty.
C11_PriorityIsHighestSeverity ==
    (DetectCalled /\ resp.success) =>
        LET found == resp.antipatterns_found
            HasSeverity(severity) == \E i \in 1..Len(found) : found[i].severity = severity
        IN /\ resp.rewrite_priority = IF HasSeverity("HIGH") THEN "HIGH"
                                      ELSE IF HasSeverity("MEDIUM") THEN "MEDIUM"
                                      ELSE IF found # <<>> THEN "LOW"
                                      ELSE "NONE"
           /\ (resp.rewrite_priority = "NONE") <=> (found = <<>>)

\* a MEDIUM finding comes before a HIGH one and the priority is HIGH
C11_Witness_MediumBeforeHigh ==
    /\ DetectCalled
    /\ resp.success
    /\ Len(resp.antipatterns_found) > 1
    /\ resp.antipatterns_found[1].severity = "MEDIUM"
    /\ \E i \in 2..Len(resp.antipatterns_found) : resp.antipatterns_found[i].severity = "HIGH"
    /\ resp.rewrite_priority = "HIGH"

\* the number of findings of a category
CountOf(found, category) ==
    Cardinality({ i \in 1..Len(found) : found[i].category = category })

\* the scan operators below the root of a plan document that are estimated
\* above 10,000 rows
LargeScans(plan) ==
    IF ~Truthy(plan) \/ ET_fromstring(plan).exc # NoExc THEN {}
    ELSE LET relops == FindAll(ET_fromstring(plan).root, "RelOp")
         IN { i \in 1..Len(relops) :
                /\ IsScan(relops[i])
                /\ FloatOf(GetAttr(relops[i], "EstimateRows", AInt(0))).v > 10000 }

\* C12: the score of a successful detect_query_antipatterns response is
\* min(10.0, 1.0 + 0.5 for SELECT_STAR + 1.5 per NON_SARGABLE_PREDICATE
\* finding + 1.0 for LEADING_WILDCARD + 2.0 for CORRELATED_SUBQUERY + 1.0
\* for SCALAR_UDF + 1.5 per MISSING_STATISTICS finding + 0.5 per scan
\* operator estimated above 10,000 rows); scan operators give no finding,
\* and SELECT * FROM T alone gives the one finding SELECT_STAR, MEDIUM, and
\* the score 1.5.
C12_ScoreIsSumOfFindings ==
    (DetectCalled /\ resp.success) =>
        LET found == resp.antipatterns_found
            sum == 10 + 5 * CountOf(found, "SELECT_STAR")
                      + 15 * CountOf(found, "NON_SARGABLE_PREDICATE")
                      + 10 * CountOf(found, "LEADING_WILDCARD")
                      + 20 * CountOf(found, "CORRELATED_SUBQUERY")
                      + 10 * CountOf(found, "SCALAR_UDF")
                      + 15 * CountOf(found, "MISSING_STATISTICS")
                      + 5 * Cardinality(LargeScans(args.execution_plan_xml))
        IN /\ resp.query_complexity_score = IF sum < 100 THEN sum ELSE 100
           /\ \A c \in {"SELECT_STAR", "LEADING_WILDCARD", "CORRELATED_SUBQUERY", "SCALAR_UDF"} :
                  CountOf(found, c) <= 1
           /\ \A i \in 1..Len(found) :
                  found[i].category \in {"SELECT_STAR", "NON_SARGABLE_PREDICATE",
                                         "LEADING_WILDCARD", "CORRELATED_SUBQUERY",
                                         "SCALAR_UDF", "MISSING_STATISTICS"}
           /\ (args.query = TXT_SelectStar /\ ~Truthy(args.execution_plan_xml)) =>
                  /\ Len(found) = 1
                  /\ found[1].category = "SELECT_STAR"
                  /\ found[1].severity = "MEDIUM"
                  /\ resp.query_complexity_score = 15

\* two large scans and a warning in the plan: one finding, 1.5 + 2 * 0.5
\* above the score of the query text
C12_Witness_ScansScoreWithoutFinding ==
    /\ DetectCalled
    /\ resp.success
    /\ Cardinality(LargeScans(args.execution_plan_xml)) = 2
    /\ args.query = TXT_SelectStar
    /\ Len(resp.antipatterns_found) = 2
    /\ resp.query_complexity_score = 40

\* the place of a category in the order of the checks
CheckOrder(category) ==
    CASE category = "SELECT_STAR" -> 1
      [] category = "NON_SARGABLE_PREDICATE" -> 2
      [] category = "LEADING_WILDCARD" -> 3
      [] category = "CORRELATED_SUBQUERY" -> 4
      [] category = "SCALAR_UDF" -> 5
      [] category = "MISSING_STATISTICS" -> 6
      [] OTHER -> 7

InCheckOrder(found) ==
    \A i, j \in 1..Len(found) :
        i < j => CheckOrder(found[i].category) <= CheckOrder(found[j].category)

NothingFound == [antipatterns |-> <<>>, complexity_score |-> 10]

\* the matches of the function pattern, which finditer gives from left to right
FunctionMatches(query) == FindIter(generic_function_pattern, Upper(query), TRUE)

\* each match ends before the next one starts
LeftToRight(matches) ==
    \A i \in 1..(Len(matches) - 1) : matches[i].to <= matches[i + 1].from

\* what each check finds when it is the only one to run, one after the other
FoundByEachCheckAlone(query, plan) ==
    SelectStarCheck(NothingFound, Upper(query)).antipatterns
    \o NonSargableCheck(NothingFound, Upper(query), FunctionMatches(query)).antipatterns
    \o LeadingWildcardCheck(NothingFound, query).antipatterns
    \o CorrelatedSubqueryCheck(NothingFound, query).antipatterns
    \o CountInWhereCheck(NothingFound, Upper(query)).antipatterns
    \o (IF Truthy(plan) /\ ET_fromstring(plan).exc = NoExc
        THEN WarningsCheck(NothingFound,
                           FindAll(ET_fromstring(plan).root, "Warnings")).antipatterns
        ELSE <<>>)

HasLeadingWildcardLike(query) == Search(RE_LikeWildcardLiteral, query, TRUE).found

\* C14: every query text that holds a LIKE operator, in any letter case,
\* whose string literal starts with the wildcard % gets a LEADING_WILDCARD
\* finding of severity HIGH, which adds 1.0 to the score.
C14_LeadingWildcardInAnyCase ==
    (DetectCalled /\ resp.success /\ HasLeadingWildcardLike(args.query)) =>
        /\ \E i \in 1..Len(resp.antipatterns_found) :
               /\ resp.antipatterns_found[i].category = "LEADING_WILDCARD"
               /\ resp.antipatterns_found[i].severity = "HIGH"
        /\ resp.query_complexity_score >= 20

\* the priority the plan impact percent stands for
C15_PriorityOfPercent(percent) ==
    IF percent >= 90 THEN "CRITICAL"
    ELSE IF percent >= 50 THEN "HIGH"
    ELSE IF percent >= 20 THEN "MEDIUM"
    ELSE "LOW"

\* the entry is the plan-sourced recommendation of the hint
C15_IsRecommendationOf(entry, hint) ==
    LET percent == FloatOf(GetAttr(hint, "Impact", AInt(0))).v
    IN /\ entry.table = PlanMissingIndex(FindAll(hint, "MissingIndex")[1], 0).table
       /\ entry.impact_score = percent * 1000
       /\ entry.recommendation_priority = C15_PriorityOfPercent(percent)
       /\ Head(entry.create_statement) = "CREATE INDEX "

\* C15: for each missing-index hint of the plan that names a table,
\* analyze_missing_indexes returns a plan-sourced recommendation with
\* impact_score = impact percent * 1000 and priority CRITICAL from 90,
\* HIGH from 50, MEDIUM from 20 and LOW below.
C15_OneRecommendationPerPlanHint ==
    (IndexesCalled /\ resp.success) =>
        \A h \in 1..Len(C4_HintsOf(args.execution_plan_xml)) :
            \E i \in 1..Len(resp.missing_indexes) :
                C15_IsRecommendationOf(resp.missing_indexes[i],
                                       C4_HintsOf(args.execution_plan_xml)[h])

\* C16: the priority of the recommendation of a DMV row is HIGH iff its
\* impact_score is above 100,000 and its user_seeks above 1,000, otherwise
\* MEDIUM iff its impact_score is above 10,000, otherwise LOW; the
\* comparisons are strict and the priority is never CRITICAL.
C16_DmvPriorityStrictThresholds ==
    (IndexesCalled /\ resp.success) =>
        /\ Len(resp.missing_indexes) >= Len(env.missing.rows)
        /\ \A i \in 1..Len(env.missing.rows) :
               LET row == env.missing.rows[i]
                   priority == resp.missing_indexes[i].recommendation_priority
               IN /\ resp.missing_indexes[i].impact_score = row.impact_score[1]
                  /\ priority = "HIGH"
                       <=> (row.impact_score[1] > 100000 /\ row.user_seeks > 1000)
                  /\ priority = "MEDIUM"
                       <=> /\ ~(row.impact_score[1] > 100000 /\ row.user_seeks > 1000)
                           /\ row.impact_score[1] > 10000
                  /\ priority = "LOW" <=> row.impact_score[1] <= 10000
                  /\ priority \in {"HIGH", "MEDIUM", "LOW"}

\* a row far above the impact threshold whose seeks are exactly 1,000 is MEDIUM
C16_Witness_HighImpactFewSeeks ==
    /\ IndexesCalled
    /\ resp.success
    /\ \E i \in 1..Len(env.missing.rows) :
           /\ env.missing.rows[i].impact_score[1] > 100000
           /\ env.missing.rows[i].user_seeks = 1000
           /\ resp.missing_indexes[i].recommendation_priority = "MEDIUM"

\* the place of the first occurrence of a token in a text, 0 when it has none
FirstIndex(text, token) ==
    IF \E i \in 1..Len(text) : text[i] = token
    THEN CHOOSE i \in 1..Len(text) :
             text[i] = token /\ \A j \in 1..(i - 1) : text[j] # token
    ELSE 0

\* the pieces of a CREATE INDEX statement
IndexNameIn(statement) == SubSeq(statement, 2, FirstIndex(statement, " ON ") - 1)
KeyColumnsIn(statement) ==
    SubSeq(statement, FirstIndex(statement, " (") + 1, FirstIndex(statement, ")") - 1)
HasIncludeClause(statement) == FirstIndex(statement, " INCLUDE (") # 0
AfterInclude(statement) ==
    SubSeq(statement, FirstIndex(statement, " INCLUDE (") + 1, Len(statement))
IncludeColumnsIn(statement) ==
    SubSeq(AfterInclude(statement), 1, FirstIndex(AfterInclude(statement), ")") - 1)

\* the columns a DMV row lists in one of its column texts
ListedColumns(text) ==
    IF text = None \/ text[1] = <<>> THEN <<>> ELSE Split(text[1], ", ")

\* the first n columns at most, without brackets, joined by "_"
LeadingColumns(columns, n) ==
    Join([i \in 1..(IF Len(columns) < n THEN Len(columns) ELSE n) |-> NoBrackets(columns[i])],
         "_")

\* key columns are the equality then the inequality columns; INCLUDE is
\* there iff there are include columns
StatementLists(statement, equality, inequality, included) ==
    /\ KeyColumnsIn(statement) = Join(equality \o inequality, ", ")
    /\ HasIncludeClause(statement) <=> included # <<>>
    /\ included # <<>> => IncludeColumnsIn(statement) = Join(included, ", ")

\* the statement synthesized for a DMV row (lines 1428-1433)
DmvStatementOk(row, entry) ==
    /\ Head(entry.create_statement) = "CREATE NONCLUSTERED INDEX "
    /\ StatementLists(entry.create_statement, ListedColumns(row.equality_columns),
                      ListedColumns(row.inequality_columns),
                      ListedColumns(row.included_columns))
    /\ IndexNameIn(entry.create_statement)
         = <<"IX_", entry.table[Len(entry.table)], "_">>
           \o LeadingColumns(ListedColumns(row.equality_columns), 3)

\* the statement synthesized for a MissingIndex element of the plan (lines 1505-1509)
PlanStatementOk(missing_index, statement) ==
    LET col_groups == FindAll(missing_index, "ColumnGroup")
        equality == ColumnsWithUsage(col_groups, "EQUALITY")
        table == StripBrackets(TextOf(GetAttr(missing_index, "Table", AStr(<<>>))))
    IN /\ Head(statement) = "CREATE INDEX "
       /\ StatementLists(statement, equality, ColumnsWithUsage(col_groups, "INEQUALITY"),
                         ColumnsWithUsage(col_groups, "INCLUDE"))
       /\ IndexNameIn(statement)
            = <<"IX_">> \o table \o <<"_">>
              \o (IF equality = <<>> THEN <<"Suggested">> ELSE LeadingColumns(equality, 2))

\* C17: in both missing-index streams the CREATE INDEX statement lists as
\* key columns all equality columns then all inequality columns, each group
\* in its input order, has an INCLUDE clause iff there are include columns,
\* and names the index after the table and the leading equality columns.
C17_CreateStatementOfBothStreams ==
    IndexesCalled =>
        /\ resp.success =>
             \A i \in 1..Len(env.missing.rows) :
                 DmvStatementOk(env.missing.rows[i], resp.missing_indexes[i])
        /\ \A h \in 1..Len(C4_HintsOf(args.execution_plan_xml)) :
               PlanStatementOk(
                   FindAll(C4_HintsOf(args.execution_plan_xml)[h], "MissingIndex")[1],
                   PlanMissingIndex(
                       FindAll(C4_HintsOf(args.execution_plan_xml)[h], "MissingIndex")[1],
                       0).create_statement)

\* a DMV row and a plan hint with two equality columns, an inequality column
\* and an include column
C17_Witness_AllColumnKinds ==
    /\ IndexesCalled
    /\ resp.success
    /\ \E i \in 1..Len(env.missing.rows) :
           /\ Len(ListedColumns(env.missing.rows[i].equality_columns)) = 2
           /\ ListedColumns(env.missing.rows[i].inequality_columns) # <<>>
           /\ HasIncludeClause(resp.missing_indexes[i].create_statement)
    /\ \E h \in 1..Len(C4_HintsOf(args.execution_plan_xml)) :
           HasIncludeClause(
               PlanMissingIndex(
                   FindAll(C4_HintsOf(args.execution_plan_xml)[h], "MissingIndex")[1],
                   0).create_statement)

\* C18: with total_reads = seeks + scans + lookups, an existing index is a
\* drop candidate (recommendation set, action a DROP INDEX statement) iff
\* total_reads = 0 and updates > 100; otherwise it is flagged for review
\* (recommendation set, no action) iff total_reads < 10 and updates > 1,000;
\* otherwise it has neither recommendation nor action.
C18_DropCandidateAndReview ==
    (IndexesCalled /\ resp.success /\ env.existing.ok) =>
        /\ Len(resp.existing_index_usage) = Len(env.existing.rows)
        /\ \A i \in 1..Len(env.existing.rows) :
               LET row == env.existing.rows[i]
                   usage == resp.existing_index_usage[i]
                   total_reads == row.user_seeks + row.user_scans + row.user_lookups
                   drop == total_reads = 0 /\ row.user_updates > 100
                   review == ~drop /\ total_reads < 10 /\ row.user_updates > 1000
               IN /\ usage.index_name = row.index_name
                  /\ drop <=> usage.action # None
                  /\ drop => /\ usage.recommendation # None
                             /\ usage.action
                                  = Some(<<"DROP INDEX ", row.index_name, " ON ", row.table_name>>)
                  /\ review <=> (usage.recommendation # None /\ usage.action = None)
                  /\ (~drop /\ ~review)
                       <=> (usage.recommendation = None /\ usage.action = None)
                  /\ usage.action # None => usage.recommendation # None

\* an index read nine times and updated 1,001 times is flagged for review
C18_Witness_ReviewWithoutAction ==
    /\ IndexesCalled
    /\ resp.success
    /\ env.existing.ok
    /\ \E i \in 1..Len(env.existing.rows) :
           /\ env.existing.rows[i].user_seeks + env.existing.rows[i].user_scans
                + env.existing.rows[i].user_lookups = 9
           /\ env.existing.rows[i].user_updates = 1001
           /\ resp.existing_index_usage[i].recommendation # None
           /\ resp.existing_index_usage[i].action = None

\* what the batch of the call in progress returned: [results, execution_plan_xml]
C19_Captured ==
    ProcessResultSets(env.result_sets, args.include_actual_plan,
                      [results |-> <<>>, execution_plan_xml |-> PlanNone])

\* the runtime counters of a captured plan, None when it has none
C19_RuntimeCounters(plan) ==
    IF Truthy(plan) THEN C10_Expected(plan, C10_BelowRoot(plan)) ELSE None

C19_MetricsAre(m, counters, wall_clock_ms, results) ==
    IF counters # None
    THEN /\ m.duration_ms = IF counters[1].actual_elapsed_ms > 0
                            THEN counters[1].actual_elapsed_ms ELSE wall_clock_ms
         /\ m.cpu_time_ms = counters[1].actual_cpu_ms
         /\ m.logical_reads = counters[1].actual_logical_reads
         /\ m.physical_reads = counters[1].actual_physical_reads
         /\ m.read_ahead_reads = counters[1].actual_read_aheads
         /\ m.lob_logical_reads = counters[1].actual_lob_logical_reads
         /\ m.lob_physical_reads = counters[1].actual_lob_physical_reads
         /\ m.row_count = counters[1].actual_rows
    ELSE /\ m.duration_ms = wall_clock_ms
         /\ m.cpu_time_ms = 0
         /\ m.logical_reads = 0
         /\ m.physical_reads = 0
         /\ m.read_ahead_reads = 0
         /\ m.lob_logical_reads = 0
         /\ m.lob_physical_reads = 0
         /\ m.row_count = Len(results)

\* C19: duration_ms of analyze_query_execution is the elapsed-ms runtime
\* counter when runtime counters are present and it is > 0, and the measured
\* wall-clock time otherwise; cpu_time_ms, the read counters and row_count
\* are the runtime counters when present (also when elapsed-ms is 0), and
\* 0 and the number of fetched rows when not.
C19_DurationAndCountersBySource ==
    ExecSucceeded =>
        C19_MetricsAre(resp.execution_metrics[1],
                       C19_RuntimeCounters(C19_Captured.execution_plan_xml),
                       env.execution_time_ms, C19_Captured.results)

\* runtime counters with elapsed-ms 0: wall-clock duration next to the
\* counters' CPU time and reads
C19_Witness_ZeroElapsedKeepsCounters ==
    /\ ExecSucceeded
    /\ C19_RuntimeCounters(C19_Captured.execution_plan_xml) # None
    /\ C19_RuntimeCounters(C19_Captured.execution_plan_xml)[1].actual_elapsed_ms = 0
    /\ resp.execution_metrics[1].duration_ms = env.execution_time_ms
    /\ env.execution_time_ms > 0
    /\ resp.execution_metrics[1].cpu_time_ms > 0
    /\ resp.execution_metrics[1].logical_reads > 0
    /\ resp.execution_metrics[1].row_count # Len(C19_Captured.results)

StatsCalled == tool = "get_query_statistics_health"

MissingInputError == Some(<<"Either table_names or execution_plan_xml must be provided">>)

\* a table list with a name in it, or a well-formed plan document, is given
TableListSupplied == args.table_names # None /\ args.table_names[1] # <<>>
PlanSupplied ==
    Truthy(args.execution_plan_xml) /\ ET_fromstring(args.execution_plan_xml).exc = NoExc

\* C20: get_query_statistics_health answers with the failure 'Either
\* table_names or execution_plan_xml must be provided' (success = false,
\* empty analysis, no query sent) only when neither a table list nor a plan
\* is supplied; supplying either one passes input validation.
C20_EitherInputPassesValidation ==
    (StatsCalled /\ env.conn.ok) =>
        /\ (TableListSupplied \/ PlanSupplied) => resp.error # MissingInputError
        /\ resp.error = MissingInputError =>
               /\ resp.success = FALSE
               /\ resp.statistics_analysis = <<>>
               /\ sent = <<>>

\* the rows the statistics queries returned, each with its table, in the
\* order of the tables and, within a table, in the order returned; a table
\* whose query failed or returned no row gives none
RECURSIVE RowsReturned(_, _)
RowsReturned(table_names, outcomes) ==
    IF table_names = <<>> THEN <<>>
    ELSE (IF Head(outcomes).ok
          THEN [i \in 1..Len(Head(outcomes).rows) |->
                   [table |-> Head(table_names), row |-> Head(outcomes).rows[i]]]
          ELSE <<>>)
         \o RowsReturned(Tail(table_names), Tail(outcomes))

IsAnalysisOf(analysis, returned) ==
    /\ analysis.table = returned.table
    /\ analysis.statistics_name = returned.row.statistics_name
    /\ analysis.days_old = DaysOld(returned.row)
    /\ analysis.modification_percent = ModPercent(returned.row)

SameRows(statistics_analysis, returned) ==
    /\ Len(statistics_analysis) = Len(returned)
    /\ \A i \in 1..Len(returned) : IsAnalysisOf(statistics_analysis[i], returned[i])

\* C21: a table whose statistics query returns no row or fails contributes
\* nothing, every other requested table is analysed: the response has
\* success = true and statistics_analysis holds exactly the rows of the
\* other tables, in the order of table_names and, within a table, in the
\* order the rows were returned.
C21_ExactlyTheRowsOfTheOtherTables ==
    (StatsCalled /\ env.conn.ok /\ TableListSupplied) =>
        /\ resp.success
        /\ SameRows(resp.statistics_analysis, RowsReturned(args.table_names[1], env.tables))

(***************************************************************************)
(* Properties of sequences of invocations, checked under SpecSessions.     *)
(***************************************************************************)
\* the call in progress has the arguments of the call whose response is kept
SameCallAgain == DetectCalled /\ kept # None /\ kept[1].args = args

QueryRanToEnd ==
    /\ tool = "analyze_query_execution"
    /\ PassesSelectGate(args.query)
    /\ env.conn.ok
    /\ env.exec.stage = "ok"

\* C23: max_execution_time_seconds bounds the execution of the query: a
\* query does not run to its end past the limit, and a call whose query
\* took longer than the limit ends in a failed envelope.
C23_TimeoutBoundsTheExecution ==
    (QueryRanToEnd /\ env.execution_time_ms > 1000 * args.max_execution_time_seconds) =>
        resp.success = FALSE

\* C24: every ExecutionMetrics record analyze_query_execution returns has
\* non-negative fields only, for every plan document and every wall-clock
\* measurement.
C24_MetricsNeverNegative ==
    ExecSucceeded =>
        LET m == resp.execution_metrics[1]
        IN /\ m.duration_ms >= 0
           /\ m.cpu_time_ms >= 0
           /\ m.logical_reads >= 0
           /\ m.physical_reads >= 0
           /\ m.read_ahead_reads >= 0
           /\ m.lob_logical_reads >= 0
           /\ m.lob_physical_reads >= 0
           /\ m.row_count >= 0
           /\ m.estimated_cost >= 0

(***************************************************************************)
(* Properties of the server-level tools, checked under Spec.               *)
(***************************************************************************)
\* the one query of the call in progress returned an empty row set
EmptyRowSet(name) ==
    /\ tool = name
    /\ env.conn.ok
    /\ env.query.ok
    /\ env.query.rows = <<>>

NoResultsError == Some(<<"No results returned from query">>)

\* C25: an empty row set is a failure for the single-record tools and a
\* success for the list tools: get_server_version and get_memory_stats
\* answer success = false with error 'No results returned from query',
\* empty version and server_name, memory_stats null; list_databases,
\* get_active_sessions and get_server_configurations answer success = true
\* with an empty list and error null.
C25_EmptyRowSetByKindOfTool ==
    /\ EmptyRowSet("get_server_version") =>
           /\ resp.success = FALSE /\ resp.error = NoResultsError
           /\ resp.version = "" /\ resp.server_name = ""
    /\ EmptyRowSet("get_memory_stats") =>
           /\ resp.success = FALSE /\ resp.error = NoResultsError
           /\ resp.memory_stats = None
    /\ EmptyRowSet("list_databases") =>
           /\ resp.success /\ resp.error = None
           /\ resp.databases = <<>> /\ resp.count = 0
    /\ EmptyRowSet("get_active_sessions") =>
           /\ resp.success /\ resp.error = None
           /\ resp.sessions = <<>> /\ resp.count = 0
    /\ EmptyRowSet("get_server_configurations") =>
           /\ resp.success /\ resp.error = None
           /\ resp.configurations = <<>>

\* get_memory_stats after a query that returned no row
C25_Witness_NoMemoryRow ==
    /\ EmptyRowSet("get_memory_stats")
    /\ resp.success = FALSE
    /\ resp.memory_stats = None
    /\ sent # <<>>

ListToolCalled == tool \in {"list_databases", "get_active_sessions"}

\* the list of the response of the call in progress
ReturnedList == IF tool = "list_databases" THEN resp.databases ELSE resp.sessions

\* the query of the call in progress returned its rows
QueryAnswered == env.conn.ok /\ env.query.ok

\* every row has a value in each field its record requires
EveryRowComplete ==
    \A i \in 1..Len(env.query.rows) :
        HasAll(env.query.rows[i],
               IF tool = "list_databases" THEN DatabaseInfoFields
               ELSE ActiveSessionInfoRequired)

\* C26, as stated: in every response of list_databases and
\* get_active_sessions count is the length of the returned list and the list
\* holds one record per input row in input order; when the query fails the
\* list is empty and count is 0.
C26_OneRecordPerRow ==
    ListToolCalled =>
        /\ resp.count = Len(ReturnedList)
        /\ QueryAnswered => ReturnedList = env.query.rows
        /\ ~QueryAnswered => (ReturnedList = <<>> /\ resp.count = 0 /\ ~resp.success)

\* C26, amended: count is always the length of the returned list; the call
\* succeeds iff the query returned its rows and every row has a value in
\* each required field of its record, and the list then holds one record
\* per row in input order; otherwise (the query failed, or one row lacks a
\* required value) the response fails whole with an empty list and count 0.
C26_OneRecordPerRowOrNone ==
    ListToolCalled =>
        /\ resp.count = Len(ReturnedList)
        /\ resp.success <=> (QueryAnswered /\ EveryRowComplete)
        /\ resp.success => (ReturnedList = env.query.rows /\ resp.error = None)
        /\ ~resp.success => (ReturnedList = <<>> /\ resp.count = 0 /\ resp.error # None)

\* two different rows, returned in their order
C26_Witness_TwoRowsInOrder ==
    /\ ListToolCalled
    /\ resp.success
    /\ resp.count = 2
    /\ ReturnedList[1] # ReturnedList[2]
    /\ ReturnedList[1] = env.query.rows[1]
    /\ ReturnedList[2] = env.query.rows[2]

\* the documented band of an average of runnable tasks (in hundredths):
\* 0 - 0.5 no CPU pressure, 0.5 - 2 mild, 2 - 5 moderate, above 5 critical
DocumentedCpuBand(avg_runnable) ==
    IF avg_runnable <= 50 THEN "none"
    ELSE IF avg_runnable <= 200 THEN "mild"
    ELSE IF avg_runnable <= 500 THEN "moderate"
    ELSE "critical"

\* the texts that agree with a band
CpuTextsOfBand(band) ==
    CASE band = "none" -> {"No CPU pressure detected", "Minimal CPU pressure"}
      [] band = "mild" -> {"MILD CPU PRESSURE"}
      [] band = "moderate" -> {"MODERATE CPU PRESSURE"}
      [] band = "critical" -> {"CRITICAL CPU PRESSURE"}

\* C27: get_scheduler_stats classifies the average of runnable tasks per
\* scheduler by the documented bands; cpu_pressure_detected and the CPU part
\* of the interpretation agree with the band of the value, and
\* total_runnable_tasks is the integer part of average * scheduler_count.
C27_PressureAgreesWithDocumentedBand ==
    (tool = "get_scheduler_stats" /\ resp.success) =>
        LET band == DocumentedCpuBand(resp.avg_runnable_per_scheduler)
        IN /\ resp.cpu_pressure_detected <=> band # "none"
           /\ resp.interpretation[1] \in CpuTextsOfBand(band)
           /\ resp.total_runnable_tasks
                = (resp.avg_runnable_per_scheduler * resp.scheduler_count) \div 100

\* C28: a failed envelope of analyze_missing_indexes,
\* detect_query_antipatterns, get_query_statistics_health or
\* analyze_query_execution carries no payload: every list is empty and every
\* optional field is null (the antipattern score is 0.0 and the priority
\* NONE), also when part of the payload had been computed before the failure.
C28_FailureCarriesNoPayload ==
    /\ (IndexesCalled /\ ~resp.success) =>
           /\ resp.missing_indexes = <<>>
           /\ resp.existing_index_usage = <<>>
           /\ resp.index_overlaps = <<>>
    /\ (DetectCalled /\ ~resp.success) =>
           /\ resp.antipatterns_found = <<>>
           /\ resp.query_complexity_score = 0
           /\ resp.rewrite_priority = "NONE"
           /\ resp.suggested_rewrite = None
    /\ (StatsCalled /\ ~resp.success) =>
           /\ resp.statistics_analysis = <<>>
           /\ resp.cardinality_mismatches = <<>>
           /\ ~resp.auto_update_stats_enabled
           /\ ~resp.auto_create_stats_enabled
    /\ (tool = "analyze_query_execution" /\ ~resp.success) =>
           /\ resp.execution_metrics = None
           /\ resp.execution_plan_xml = None
           /\ resp.execution_plan_summary = None
           /\ resp.wait_statistics = None
           /\ resp.bottleneck_type = None
           /\ resp.query_hash = None
           /\ resp.query_plan_hash = None

\* the plan analysis fails after the text checks had found something
C28_Witness_TextFindingsDropped ==
    /\ DetectCalled
    /\ ~resp.success
    /\ Len(SelectStarCheck(NothingFound, Upper(args.query)).antipatterns) = 1
    /\ resp.antipatterns_found = <<>>
    /\ resp.query_complexity_score = 0

HashLookupSent == \E i \in 1..Len(sent) : sent[i] = HashQuery

\* C29: analyze_query_execution goes through the SELECT/WITH gate, the
\* execution of the query, the hash lookup, then metrics and classification.
\* The hash lookup is sent only after the execution succeeded; a failed
\* execution ends the call with 'Query execution failed: ...' and no hash
\* lookup; a failed hash lookup leaves query_hash and query_plan_hash null
\* and changes neither success = true nor the metrics.
C29_GateExecutionHashMetrics ==
    tool = "analyze_query_execution" =>
        /\ ~PassesSelectGate(args.query) =>
               /\ sent = <<>>
               /\ ~resp.success
        /\ HashLookupSent =>
               /\ PassesSelectGate(args.query) /\ env.conn.ok /\ env.exec.stage = "ok"
               /\ sent = <<CombinedQuery(args.query, args.database_name,
                                         args.include_actual_plan), HashQuery>>
        /\ (PassesSelectGate(args.query) /\ env.conn.ok /\ env.exec.stage # "ok") =>
               /\ ~resp.success
               /\ resp.error = Some(<<"Query execution failed: ", env.exec.msg>>)
               /\ ~HashLookupSent
               /\ resp.execution_metrics = None
        /\ QueryRanToEnd =>
               /\ HashLookupSent
               /\ resp.success
               /\ C19_MetricsAre(resp.execution_metrics[1],
                                 C19_RuntimeCounters(C19_Captured.execution_plan_xml),
                                 env.execution_time_ms, C19_Captured.results)
               /\ resp.bottleneck_type = BottleneckType(resp.execution_metrics[1])
               /\ ~env.hash.ok => (resp.query_hash = None /\ resp.query_plan_hash = None)

\* the hash lookup fails after a query that ran with runtime counters
C29_Witness_HashLookupFails ==
    /\ QueryRanToEnd
    /\ ~env.hash.ok
    /\ sent[Len(sent)] = HashQuery
    /\ resp.success
    /\ resp.query_hash = None
    /\ resp.execution_metrics[1].logical_reads > 0
    /\ resp.bottleneck_type # None

SeverityOfCategory(category) ==
    IF category \in {"SELECT_STAR", "SCALAR_UDF"} THEN "MEDIUM" ELSE "HIGH"

\* C30: every finding of detect_query_antipatterns has severity HIGH or
\* MEDIUM (SELECT_STAR and SCALAR_UDF are MEDIUM, every other category is
\* HIGH), so rewrite_priority is never LOW: it is HIGH, MEDIUM or NONE.
C30_SeverityByCategoryNeverLow ==
    DetectCalled =>
        /\ \A i \in 1..Len(resp.antipatterns_found) :
               /\ resp.antipatterns_found[i].severity \in {"HIGH", "MEDIUM"}
               /\ resp.antipatterns_found[i].severity
                      = SeverityOfCategory(resp.antipatterns_found[i].category)
        /\ resp.rewrite_priority \in {"HIGH", "MEDIUM", "NONE"}
        /\ resp.rewrite_priority # "LOW"

\* findings of MEDIUM severity only: SELECT * and COUNT( in WHERE
C30_Witness_MediumFindingsOnly ==
    /\ DetectCalled
    /\ resp.success
    /\ CountOf(resp.antipatterns_found, "SELECT_STAR") = 1
    /\ \A i \in 1..Len(resp.antipatterns_found) :
           resp.antipatterns_found[i].severity = "MEDIUM"
    /\ resp.rewrite_priority = "MEDIUM"

====
